---- MODULE Spec2Model ----
(***************************************************************************)
(* The gossip daemon (gossipd/gossipd.c): per-peer session state, the      *)
(* staggered broadcast pump, the inbound short_channel_id and channel      *)
(* range queries, the queries the master sends to a peer with their        *)
(* replies, the channel flags a peer leaves when it goes, and the policy   *)
(* for our own channel_updates and node_announcement.                      *)
(*                                                                         *)
(* Integers are scaled: a u32 is TsBits wide, a u64 is 2*TsBits wide, so   *)
(* that the wrap-around of first_timestamp + timestamp_range - 1 and the   *)
(* UINT64_MAX cursor are kept and stay inside TLC's integers.              *)
(***************************************************************************)
EXTENDS Integers, Sequences, FiniteSets, TLC

\* ---------------------------------------------------------------- bounds
\* Width of a (scaled) u32.
TsBits == 2
\* Longest broadcast log explored.
MaxLog == 2
\* query_short_channel_ids messages sent to one peer in a session
MaxScidQueries == 2
\* pings one peer is left to answer
MaxPings == 1
\* ids one outbound channel-range query accumulates
MaxRangeScids == 2
\* requests of one kind the master has sent and has no reply to
MaxOwed == 2
\* rstate->prune_timeout, in seconds of the scaled clock
PruneTimeout == 4
\* wakes of the pump counted for one inbound SCID query
MaxWakes == 8

UINT32_MAX == 2^TsBits - 1
UINT64_MAX == 2^(2 * TsBits) - 1
U32 == 0..UINT32_MAX

\* The ids connectd announces peers for.
PeerIds == {2}
\* Short channel ids a peer may ask about (3 is in the channel map only of
\* the runs over channel ranges and over the sessions of a peer).
SCIDs == {1, 2, 3}
\* Timestamps carried by the entries of the broadcast log.
LogTimestamps == {1, 2}
\* rstate->chain_hash; any other chain is "foreign".
OurChain == "our"
\* The decoded short_channel_id lists a query may carry.
Queries == {<<>>, <<1>>, <<3>>, <<1, 2>>, <<2, 1>>, <<1, 1>>, <<3, 2>>}
\* The lists explored together with the broadcast log.
FewQueries == {<<3>>, <<1>>}

\* An optional value (a pointer that may be NULL).
NULL == <<>>
Some(x) == <<x>>
Val(o) == o[1]
Zeros(n) == [i \in 1..n |-> 0]

\* A wire message queued to a peer.
Msg(type, a, b) == [type |-> type, a |-> a, b |-> b]
MsgBroadcast(idx) == Msg("broadcast", idx, 0)
MsgChannelAnnouncement(scid) == Msg("channel_announcement", scid, 0)
MsgChannelUpdate(scid, half) == Msg("channel_update", scid, half)
MsgNodeAnnouncement(id) == Msg("node_announcement", id, 0)
MsgReplyShortChannelIdsEnd == Msg("reply_short_channel_ids_end", 1, 0)
MsgError == Msg("error", 0, 0)
MsgGossipTimestampFilter(first, range) == Msg("gossip_timestamp_filter", first, range)
MsgReplyChannelRange(first_blocknum, number_of_blocks, scids) ==
    [type |-> "reply_channel_range", first_blocknum |-> first_blocknum,
     number_of_blocks |-> number_of_blocks, complete |-> 1, scids |-> scids]
MsgQueryShortChannelIds(scids) == [type |-> "query_short_channel_ids", scids |-> scids]
MsgQueryChannelRange(first_blocknum, number_of_blocks) ==
    [type |-> "query_channel_range", first_blocknum |-> first_blocknum,
     number_of_blocks |-> number_of_blocks]
MsgPing(num_pong_bytes) == [type |-> "ping", num_pong_bytes |-> num_pong_bytes]
\* Messages sent to the master.
MsgScidsReply(ok, complete) == [type |-> "gossip_scids_reply", ok |-> ok, complete |-> complete]
MsgQueryChannelRangeReply(first_blocknum, number_of_blocks, complete, scids) ==
    [type |-> "gossip_query_channel_range_reply", first_blocknum |-> first_blocknum,
     number_of_blocks |-> number_of_blocks, complete |-> complete, scids |-> scids]
MsgPingReply(delivered, totlen) ==
    [type |-> "gossip_ping_reply", sent |-> delivered, totlen |-> totlen]
\* A message sent to connectd.
MsgNewPeerReply(success) == Msg("gossip_new_peer_reply", IF success THEN 1 ELSE 0, 0)
\* Messages sent on a peer's stream for its channel daemon and to the master
\* on behalf of the routing core.
MsgGetUpdateReply(update) == [type |-> "gossip_get_update_reply", update |-> update]
MsgGetTxout(scid) == Msg("gossip_get_txout", scid, 0)

VARIABLES
    peers,           \* daemon->peers: the ids of the live peers
    peer,            \* id -> struct peer
    broadcasts,      \* rstate->broadcasts: the timestamps of the log, entry i at [i+1]
    chanmap,         \* rstate->chanmap: scid -> chan
    node_announced,  \* the nodes n with n->node_announcement_index != 0
    suppress_gossip, \* the developer toggle
    hist,            \* id -> what was queued to the peer so far (observation only)
    peer_list,       \* daemon->peers as the list it is: ids, in list_add_tail order
    local_disabled,  \* scid -> chan->local_disabled
    max_scids_encode_bytes, \* the developer's cap on an encoded scid array
    sent,            \* what the last step queued (observation only)
    local            \* our own end of the graph: the clock, our halves of our
                     \* channels, our node, the daemon's self-announcement
                     \* fields, rstate->local_channel_announced, the
                     \* number of refresh timers in daemon->timers and the
                     \* channel deletions written to the gossip store

vars == <<peers, peer, broadcasts, chanmap, node_announced, suppress_gossip, hist,
          peer_list, local_disabled, max_scids_encode_bytes, sent, local>>

\* ------------------------------------------------------------ the graph
NoChan == [present |-> FALSE, announced |-> FALSE, update |-> {}]
Chan(announced, update) == [present |-> TRUE, announced |-> announced, update |-> update]
\* chan->nodes[0], chan->nodes[1]
ChanNodes(scid) == IF scid = 1 THEN <<2, 3>> ELSE IF scid = 2 THEN <<1, 2>> ELSE <<1, 3>>

\* daemon->id
OurId == 1

\* other_node(node, c)
other_node(id, scid) ==
    IF ChanNodes(scid)[1] = id THEN ChanNodes(scid)[2] ELSE ChanNodes(scid)[1]

\* node->chans of get_node(rstate, id); empty when there is no such node
node_chans(cm, id) ==
    {s \in SCIDs : cm[s].present /\ (ChanNodes(s)[1] = id \/ ChanNodes(s)[2] = id)}

\* The graphs a run starts with.
Graphs ==
    { [cm |-> [s \in SCIDs |-> IF s = 3 THEN NoChan ELSE c[s]], na |-> na] :
        c \in [{1, 2} -> {NoChan, Chan(FALSE, {0, 1}), Chan(TRUE, {0, 1}), Chan(TRUE, {1})}],
        na \in {{1, 2, 3}, {2}} }

\* The graph explored together with the broadcast log: channel 1 announced,
\* of its two nodes only node 3 announced.
OneGraph ==
    [cm |-> [s \in SCIDs |-> IF s = 1 THEN Chan(TRUE, {0, 1}) ELSE NoChan], na |-> {3}]

\* get_channel(rstate, scid) && is_chan_announced(chan)
IsAnnouncedChan(scid) == chanmap[scid].present /\ chanmap[scid].announced

\* --------------------------------------------------- channel ranges
\* short_channel_id_blocknum: id 1 is in block 1, ids 2 and 3 are two
\* outputs of block 2; block 0 holds no channel
short_channel_id_blocknum(scid) == (scid + 2) \div 2

\* max_scids_encode_bytes as the program starts: -1U, which caps nothing
NoEncodeCap == 2147483647

\* 65535 - 2 - reply_overhead, reply_overhead being 32 + 4 + 4 + 1 + 2
max_encoded_bytes == 65535 - 2 - (32 + 4 + 4 + 1 + 2)

\* tal_count(encoded) after encode_short_channel_ids_end: the type byte and
\* 8 bytes for each id (zlib, given a buffer of the input's size, fails on
\* arrays this short and the encoding falls back to uncompressed)
encoded_bytes(scids) == 1 + 8 * Len(scids)

\* encode_short_channel_ids_end
encode_short_channel_ids_end(scids, cap, max_bytes) ==
    IF encoded_bytes(scids) > cap THEN FALSE ELSE encoded_bytes(scids) <= max_bytes

\* zencode_scids with a buffer that must be larger than what zlib writes.
zencode_scids_strictly_smaller(len, zlen, z_ok) ==
    IF z_ok /\ zlen < len THEN <<zlen>> ELSE <<>>

\* zencode_scids, for a body of len bytes that zlib, at its best level,
\* turns into zlen bytes: compress2 is given a buffer of len bytes and
\* returns Z_OK when its output fits it, Z_BUF_ERROR when it does not, and
\* another error when z_ok is false. The length of z, or none for NULL.
zencode_scids(len, zlen, z_ok) ==
    IF z_ok /\ zlen <= len THEN <<zlen>> ELSE <<>>

\* encode_short_channel_ids_end, for an array started with the ZLIB tag and
\* a body of len bytes: the tag and tal_count(encoded) it leaves, and what it
\* returns; cap is max_scids_encode_bytes.
encode_end(len, zlen, z_ok, cap, max_bytes) ==
    LET z == zencode_scids(len, zlen, z_ok)
        tag == IF z # <<>> THEN "SHORTIDS_ZLIB" ELSE "SHORTIDS_UNCOMPRESSED"
        body == IF z # <<>> THEN z[1] ELSE len
    IN [tag |-> tag, body |-> body,
        ok |-> IF 1 + body > cap THEN FALSE ELSE 1 + body <= max_bytes]

\* The ids of a set in increasing order, as uintmap_after walks them.
RECURSIVE in_order(_)
in_order(S) ==
    IF S = {} THEN <<>>
    ELSE LET m == CHOOSE x \in S : \A y \in S : x <= y
         IN <<m>> \o in_order(S \ {m})

\* queue_channel_ranges: the walk of the channel map, from the id before
\* the first of block first_blocknum (of block 1 when first_blocknum is 0)
\* up to the first id at or beyond first_blocknum + number_of_blocks
range_scids(cm, first_blocknum, number_of_blocks) ==
    in_order({s \in SCIDs :
                /\ cm[s].present
                /\ short_channel_id_blocknum(s) >=
                       (IF first_blocknum = 0 THEN 1 ELSE first_blocknum)
                /\ short_channel_id_blocknum(s) < first_blocknum + number_of_blocks})

\* queue_channel_ranges giving both halves number_of_blocks / 2 blocks.
RECURSIVE queue_channel_ranges_even_halves(_, _, _, _)
queue_channel_ranges_even_halves(cm, cap, first_blocknum, number_of_blocks) ==
    LET scids == range_scids(cm, first_blocknum, number_of_blocks)
    IN IF encode_short_channel_ids_end(scids, cap, max_encoded_bytes)
       THEN <<MsgReplyChannelRange(first_blocknum, number_of_blocks, scids)>>
       ELSE IF number_of_blocks <= 1 THEN <<>>
       ELSE queue_channel_ranges_even_halves(cm, cap, first_blocknum,
                                             number_of_blocks \div 2)
            \o queue_channel_ranges_even_halves(cm, cap,
                                                first_blocknum + number_of_blocks \div 2,
                                                number_of_blocks \div 2)

\* queue_channel_ranges recursing into the upper half before the lower.
RECURSIVE queue_channel_ranges_upper_first(_, _, _, _)
queue_channel_ranges_upper_first(cm, cap, first_blocknum, number_of_blocks) ==
    LET scids == range_scids(cm, first_blocknum, number_of_blocks)
    IN IF encode_short_channel_ids_end(scids, cap, max_encoded_bytes)
       THEN <<MsgReplyChannelRange(first_blocknum, number_of_blocks, scids)>>
       ELSE IF number_of_blocks <= 1 THEN <<>>
       ELSE queue_channel_ranges_upper_first(cm, cap,
                                             first_blocknum + number_of_blocks \div 2,
                                             number_of_blocks - number_of_blocks \div 2)
            \o queue_channel_ranges_upper_first(cm, cap, first_blocknum,
                                                number_of_blocks \div 2)

\* queue_channel_ranges: the reply_channel_range messages it queues
RECURSIVE queue_channel_ranges(_, _, _, _)
queue_channel_ranges(cm, cap, first_blocknum, number_of_blocks) ==
    LET scids == range_scids(cm, first_blocknum, number_of_blocks)
    IN IF encode_short_channel_ids_end(scids, cap, max_encoded_bytes)
       THEN <<MsgReplyChannelRange(first_blocknum, number_of_blocks, scids)>>
       ELSE IF number_of_blocks <= 1 THEN <<>>
       ELSE queue_channel_ranges(cm, cap, first_blocknum, number_of_blocks \div 2)
            \o queue_channel_ranges(cm, cap, first_blocknum + number_of_blocks \div 2,
                                    number_of_blocks - number_of_blocks \div 2)

\* handle_query_channel_range testing the sum without wrapping it to 32 bits.
query_channel_range_overflows_unwrapped(first_blocknum, number_of_blocks) ==
    first_blocknum + number_of_blocks < first_blocknum

\* handle_query_channel_range: first_blocknum + number_of_blocks < first_blocknum,
\* the sum computed in u32
query_channel_range_overflows(first_blocknum, number_of_blocks) ==
    (first_blocknum + number_of_blocks) % 2^TsBits < first_blocknum

\* handle_query_channel_range answering a foreign chain with an error.
handle_query_channel_range_foreign_error(cm, cap, wellformed, chain, first_blocknum, number_of_blocks) ==
    IF ~wellformed \/ chain # OurChain THEN <<MsgError>>
    ELSE IF query_channel_range_overflows(first_blocknum, number_of_blocks)
    THEN <<MsgError>>
    ELSE queue_channel_ranges(cm, cap, first_blocknum, number_of_blocks)

\* handle_query_channel_range: the messages it queues to the peer
handle_query_channel_range(cm, cap, wellformed, chain, first_blocknum, number_of_blocks) ==
    IF ~wellformed THEN <<MsgError>>
    ELSE IF chain # OurChain THEN <<>>
    ELSE IF query_channel_range_overflows(first_blocknum, number_of_blocks)
    THEN <<MsgError>>
    ELSE queue_channel_ranges(cm, cap, first_blocknum, number_of_blocks)

\* -------------------------------------------------------------- a peer
Range(list) == {list[i] : i \in 1..Len(list)}

\* find_peer: is there a peer of this id in the list
find_peer(list, id) == id \in Range(list)

\* list_del_from, for the peer find_peer returns: the first of this id
list_del_from(list, id) ==
    LET i == CHOOSE k \in 1..Len(list) :
                 list[k] = id /\ \A j \in 1..(k - 1) : list[j] # id
    IN SubSeq(list, 1, i - 1) \o SubSeq(list, i + 1, Len(list))

\* peer_disable_channels that disables every channel of the node, whoever
\* is at the other end.
peer_disable_channels_any_end(cm, ld, id) ==
    [s \in SCIDs |-> IF s \in node_chans(cm, id) THEN TRUE ELSE ld[s]]

\* peer_disable_channels, for the node of the peer
peer_disable_channels(cm, ld, id) ==
    [s \in SCIDs |-> IF s \in node_chans(cm, id) /\ other_node(id, s) = OurId
                     THEN TRUE ELSE ld[s]]

\* destroy_peer: the list and the channel flags it leaves
destroy_peer(list, cm, ld, id) ==
    [peer_list |-> list_del_from(list, id),
     local_disabled |-> peer_disable_channels(cm, ld, id)]

\* connectd_new_peer that does not look for an old peer of the same id.
kill_old_peer_skipped(list, cm, ld, id) ==
    [peer_list |-> list, local_disabled |-> ld]

\* connectd_new_peer: tal_free(find_peer(daemon, &peer->id))
kill_old_peer(list, cm, ld, id) ==
    IF find_peer(list, id) THEN destroy_peer(list, cm, ld, id)
    ELSE [peer_list |-> list, local_disabled |-> ld]

\* gossip_disable_local_channels, run by gossip_init
gossip_disable_local_channels(cm) == [s \in SCIDs |-> s \in node_chans(cm, OurId)]

\* What a handler leaves: the peer, what it queued to the peer, what it sent
\* to the master.
Done(pr, to_peer, to_control) == [peer |-> pr, to_peer |-> to_peer, to_control |-> to_control]

\* handle_reply_short_channel_ids_end without the test for zero: the size_t
\* counter wraps.
handle_reply_short_channel_ids_end_wraps(pr, wellformed, chain, complete) ==
    IF ~wellformed \/ chain # OurChain THEN Done(pr, <<MsgError>>, <<>>)
    ELSE Done([pr EXCEPT !.num_scid_queries_outstanding =
                            IF @ = 0 THEN UINT64_MAX ELSE @ - 1],
              <<>>, <<MsgScidsReply(TRUE, complete)>>)

\* handle_reply_short_channel_ids_end
handle_reply_short_channel_ids_end(pr, wellformed, chain, complete) ==
    IF ~wellformed THEN Done(pr, <<MsgError>>, <<>>)
    ELSE IF chain # OurChain THEN Done(pr, <<MsgError>>, <<>>)
    ELSE IF pr.num_scid_queries_outstanding = 0 THEN Done(pr, <<MsgError>>, <<>>)
    ELSE Done([pr EXCEPT !.num_scid_queries_outstanding = @ - 1],
              <<>>, <<MsgScidsReply(TRUE, complete)>>)

\* memchr(blocks + n, v, len) finds a v
memchr(blocks, n, v, len) == \E k \in (n + 1)..(n + len) : blocks[k] = v

\* memset(blocks + n, 1, len)
memset(blocks, n, len) ==
    [k \in 1..Len(blocks) |-> IF n + 1 <= k /\ k <= n + len THEN 1 ELSE blocks[k]]

\* handle_reply_channel_range replying to the master after every reply it
\* accepts.
handle_reply_channel_range_early(pr, wellformed, chain, first_blocknum, number_of_blocks, complete, decoded) ==
    IF ~wellformed \/ chain # OurChain \/ pr.query_channel_blocks = NULL
       \/ (first_blocknum + number_of_blocks) % 2^TsBits < first_blocknum
       \/ decoded = NULL
    THEN Done(pr, <<MsgError>>, <<>>)
    ELSE LET blocks == Val(pr.query_channel_blocks)
             n == first_blocknum - pr.first_channel_range
         IN IF first_blocknum < pr.first_channel_range
               \/ n + number_of_blocks > Len(blocks)
               \/ memchr(blocks, n, 1, number_of_blocks)
            THEN Done(pr, <<MsgError>>, <<>>)
            ELSE Done([pr EXCEPT !.query_channel_blocks = NULL,
                                 !.query_channel_scids = NULL],
                      <<>>,
                      <<MsgQueryChannelRangeReply(first_blocknum, number_of_blocks, complete,
                                                  Val(pr.query_channel_scids) \o Val(decoded))>>)

\* handle_reply_channel_range that does not look for blocks it already has.
handle_reply_channel_range_remarks(pr, wellformed, chain, first_blocknum, number_of_blocks, complete, decoded) ==
    IF ~wellformed \/ chain # OurChain \/ pr.query_channel_blocks = NULL
       \/ (first_blocknum + number_of_blocks) % 2^TsBits < first_blocknum
       \/ decoded = NULL
    THEN Done(pr, <<MsgError>>, <<>>)
    ELSE LET blocks == Val(pr.query_channel_blocks)
             n == first_blocknum - pr.first_channel_range
         IN IF first_blocknum < pr.first_channel_range
               \/ n + number_of_blocks > Len(blocks)
            THEN Done(pr, <<MsgError>>, <<>>)
            ELSE LET marked == memset(blocks, n, number_of_blocks)
                     scids == Val(pr.query_channel_scids) \o Val(decoded)
                 IN IF memchr(marked, 0, 0, Len(marked))
                    THEN Done([pr EXCEPT !.query_channel_blocks = Some(marked),
                                         !.query_channel_scids = Some(scids)],
                              <<>>, <<>>)
                    ELSE Done([pr EXCEPT !.query_channel_blocks = NULL,
                                         !.query_channel_scids = NULL],
                              <<>>,
                              <<MsgQueryChannelRangeReply(first_blocknum, number_of_blocks,
                                                          complete, scids)>>)

\* handle_reply_channel_range; decoded is NULL when decode_short_ids fails
handle_reply_channel_range(pr, wellformed, chain, first_blocknum, number_of_blocks, complete, decoded) ==
    IF ~wellformed THEN Done(pr, <<MsgError>>, <<>>)
    ELSE IF chain # OurChain THEN Done(pr, <<MsgError>>, <<>>)
    ELSE IF pr.query_channel_blocks = NULL THEN Done(pr, <<MsgError>>, <<>>)
    ELSE IF (first_blocknum + number_of_blocks) % 2^TsBits < first_blocknum
    THEN Done(pr, <<MsgError>>, <<>>)
    ELSE IF decoded = NULL THEN Done(pr, <<MsgError>>, <<>>)
    ELSE LET blocks == Val(pr.query_channel_blocks)
             n == first_blocknum - pr.first_channel_range
         IN IF first_blocknum < pr.first_channel_range
               \/ n + number_of_blocks > Len(blocks)
            THEN Done(pr, <<MsgError>>, <<>>)
            ELSE IF memchr(blocks, n, 1, number_of_blocks)
            THEN Done(pr, <<MsgError>>, <<>>)
            ELSE LET marked == memset(blocks, n, number_of_blocks)
                     scids == Val(pr.query_channel_scids) \o Val(decoded)
                 IN IF memchr(marked, 0, 0, Len(marked))
                    THEN Done([pr EXCEPT !.query_channel_blocks = Some(marked),
                                         !.query_channel_scids = Some(scids)],
                              <<>>, <<>>)
                    ELSE Done([pr EXCEPT !.query_channel_blocks = NULL,
                                         !.query_channel_scids = NULL],
                              <<>>,
                              <<MsgQueryChannelRangeReply(first_blocknum, number_of_blocks,
                                                          complete, scids)>>)

\* 65535 - 2 - reply_overhead in query_scids_req, reply_overhead being 32 + 2
max_query_encoded_bytes == 65535 - 2 - (32 + 2)

\* query_scids_req; found tells whether find_peer found the peer
query_scids_req(pr, found, cap, scids) ==
    IF ~found THEN Done(pr, <<>>, <<MsgScidsReply(FALSE, FALSE)>>)
    ELSE IF ~pr.gossip_queries_feature THEN Done(pr, <<>>, <<MsgScidsReply(FALSE, FALSE)>>)
    ELSE IF ~encode_short_channel_ids_end(scids, cap, max_query_encoded_bytes)
    THEN Done(pr, <<>>, <<MsgScidsReply(FALSE, FALSE)>>)
    ELSE Done([pr EXCEPT !.num_scid_queries_outstanding = @ + 1],
              <<MsgQueryShortChannelIds(scids)>>, <<>>)

\* query_channel_range without the test for an active query.
query_channel_range_overwrites(pr, found, first_blocknum, number_of_blocks) ==
    IF ~found \/ ~pr.gossip_queries_feature
    THEN Done(pr, <<>>, <<MsgQueryChannelRangeReply(0, 0, FALSE, NULL)>>)
    ELSE Done([pr EXCEPT !.first_channel_range = first_blocknum,
                         !.query_channel_blocks = Some(Zeros(number_of_blocks)),
                         !.query_channel_scids = Some(<<>>)],
              <<MsgQueryChannelRange(first_blocknum, number_of_blocks)>>, <<>>)

\* query_channel_range, the request of the master
query_channel_range(pr, found, first_blocknum, number_of_blocks) ==
    IF ~found THEN Done(pr, <<>>, <<MsgQueryChannelRangeReply(0, 0, FALSE, NULL)>>)
    ELSE IF ~pr.gossip_queries_feature
    THEN Done(pr, <<>>, <<MsgQueryChannelRangeReply(0, 0, FALSE, NULL)>>)
    ELSE IF pr.query_channel_blocks # NULL
    THEN Done(pr, <<>>, <<MsgQueryChannelRangeReply(0, 0, FALSE, NULL)>>)
    ELSE Done([pr EXCEPT !.first_channel_range = first_blocknum,
                         !.query_channel_blocks = Some(Zeros(number_of_blocks)),
                         !.query_channel_scids = Some(<<>>)],
              <<MsgQueryChannelRange(first_blocknum, number_of_blocks)>>, <<>>)

\* ping_req that waits for the pong of a ping asking for 65532 bytes.
ping_req_waits_65532(pr, found, num_pong_bytes) ==
    IF ~found THEN Done(pr, <<>>, <<MsgPingReply(FALSE, 0)>>)
    ELSE IF num_pong_bytes > 65532
    THEN Done(pr, <<MsgPing(num_pong_bytes)>>, <<MsgPingReply(TRUE, 0)>>)
    ELSE Done([pr EXCEPT !.num_pings_outstanding = @ + 1],
              <<MsgPing(num_pong_bytes)>>, <<>>)

\* ping_req that counts a ping it has already answered the master for.
ping_req_counts_all(pr, found, num_pong_bytes) ==
    IF ~found THEN Done(pr, <<>>, <<MsgPingReply(FALSE, 0)>>)
    ELSE Done([pr EXCEPT !.num_pings_outstanding = @ + 1],
              <<MsgPing(num_pong_bytes)>>,
              IF num_pong_bytes >= 65532 THEN <<MsgPingReply(TRUE, 0)>> ELSE <<>>)

\* The request ping of the master; a pong of 65532 bytes or more is not
\* waited for
ping_req(pr, found, num_pong_bytes) ==
    IF ~found THEN Done(pr, <<>>, <<MsgPingReply(FALSE, 0)>>)
    ELSE IF num_pong_bytes >= 65532
    THEN Done(pr, <<MsgPing(num_pong_bytes)>>, <<MsgPingReply(TRUE, 0)>>)
    ELSE Done([pr EXCEPT !.num_pings_outstanding = @ + 1],
              <<MsgPing(num_pong_bytes)>>, <<>>)

\* handle_pong; got_pong rejects a malformed pong and one that no ping
\* awaits, and counts the others off
handle_pong(pr, wellformed, len) ==
    IF ~wellformed \/ pr.num_pings_outstanding = 0 THEN Done(pr, <<MsgError>>, <<>>)
    ELSE Done([pr EXCEPT !.num_pings_outstanding = @ - 1],
              <<>>, <<MsgPingReply(TRUE, len)>>)

\* What is observed of a step, when the run records it:
\*   step        the handler that ran, the peer it ran for and those of its
\*               inputs that do not show in what it leaves
\*   to_peer     the messages the step queued to the peer
\*   to_control  the messages the step sent to the master or to connectd
\*   burst       the log entries queued to the peer since its timer last
\*               fired or its cursor was last set (3 stands for "3 or more")
\*   owed        when the run counts them (count): per command of the
\*               master, the requests received so far less the replies sent
\*   made        the channel_updates and node_announcements the step
\*               generated and its calls of maybe_send_own_node_announce
\*   queued      the messages the step queued, each with its peer
Step(op, id, args) == [op |-> op, id |-> id, args |-> args]
NoSent ==
    [rec |-> FALSE, step |-> Step("init", 0, <<>>),
     to_peer |-> <<>>, to_control |-> <<>>, burst |-> 0,
     count |-> FALSE, owed |-> [ping |-> 0, query_scids |-> 0, query_channel_range |-> 0],
     made |-> <<>>, queued |-> <<>>]
Recording == [NoSent EXCEPT !.rec = TRUE]
Counting == [Recording EXCEPT !.count = TRUE]
DeadPeer ==
    [gossip_queries_feature |-> FALSE, initial_routing_sync_feature |-> FALSE,
     broadcast_index |-> 0, gossip_timestamp_min |-> 0, gossip_timestamp_max |-> 0,
     scid_queries |-> NULL, scid_query_idx |-> 0,
     scid_query_nodes |-> NULL, scid_query_nodes_idx |-> 0,
     gossip_timer |-> FALSE,
     num_scid_queries_outstanding |-> 0, num_pings_outstanding |-> 0,
     query_channel_blocks |-> NULL, first_channel_range |-> 0,
     query_channel_scids |-> <<>>]

\* What is observed of a session:
\*   epoch        per log entry, how often it was emitted to the peer since the
\*                cursor was last set (2 stands for "twice or more")
\*   prev         the entries emitted to the peer before the cursor was last set
\*   last_filter  the shape of the last accepted gossip_timestamp_filter
\*   created_at   for a peer without gossip_queries, next_index at its creation
\*   query        the query_short_channel_ids being answered (kept, with reply,
\*                for one step after the terminator)
\*   reply        the messages the pump queued for it, in order
\*   other        another handler queued a message to the peer meanwhile
\*   wakes        the calls of dump_gossip for the peer since the query was
\*                accepted, up to MaxWakes
\*   scids_sent   the query_short_channel_ids messages queued to the peer
\*   ends_accepted  the completions forwarded to the master for the peer
NoHist ==
    [epoch |-> <<>>, prev |-> {}, last_filter |-> "none", created_at |-> 0,
     query |-> NULL, reply |-> <<>>, other |-> FALSE, wakes |-> 0,
     scids_sent |-> 0, ends_accepted |-> 0]

Min(S) == CHOOSE x \in S : \A y \in S : x <= y
Bump(c) == IF c >= 2 THEN 2 ELSE c + 1

\* new_peer_state without the gossip_queries branch: every peer starts as a
\* peer without gossip_queries does.
new_peer_state_no_queries_branch(gq, irs, next_index) ==
    [gossip_queries_feature |-> gq, initial_routing_sync_feature |-> irs,
     broadcast_index |-> IF irs THEN 0 ELSE next_index,
     gossip_timestamp_min |-> 0,
     gossip_timestamp_max |-> UINT32_MAX,
     scid_queries |-> NULL, scid_query_idx |-> 0,
     scid_query_nodes |-> NULL, scid_query_nodes_idx |-> 0,
     gossip_timer |-> FALSE,
     num_scid_queries_outstanding |-> 0, num_pings_outstanding |-> 0,
     query_channel_blocks |-> NULL, first_channel_range |-> 0,
     query_channel_scids |-> <<>>]

\* new_peer_state with the initial_routing_sync test inverted.
new_peer_state_sync_inverted(gq, irs, next_index) ==
    [gossip_queries_feature |-> gq, initial_routing_sync_feature |-> irs,
     broadcast_index |-> IF gq THEN UINT64_MAX ELSE IF irs THEN next_index ELSE 0,
     gossip_timestamp_min |-> IF gq THEN UINT32_MAX ELSE 0,
     gossip_timestamp_max |-> IF gq THEN 0 ELSE UINT32_MAX,
     scid_queries |-> NULL, scid_query_idx |-> 0,
     scid_query_nodes |-> NULL, scid_query_nodes_idx |-> 0,
     gossip_timer |-> FALSE,
     num_scid_queries_outstanding |-> 0, num_pings_outstanding |-> 0,
     query_channel_blocks |-> NULL, first_channel_range |-> 0,
     query_channel_scids |-> <<>>]

\* connectd_new_peer, the fields it sets before the peer is woken
new_peer_state(gq, irs, next_index) ==
    [gossip_queries_feature |-> gq, initial_routing_sync_feature |-> irs,
     broadcast_index |-> IF gq THEN UINT64_MAX ELSE IF irs THEN 0 ELSE next_index,
     gossip_timestamp_min |-> IF gq THEN UINT32_MAX ELSE 0,
     gossip_timestamp_max |-> IF gq THEN 0 ELSE UINT32_MAX,
     scid_queries |-> NULL, scid_query_idx |-> 0,
     scid_query_nodes |-> NULL, scid_query_nodes_idx |-> 0,
     gossip_timer |-> FALSE,
     num_scid_queries_outstanding |-> 0, num_pings_outstanding |-> 0,
     query_channel_blocks |-> NULL, first_channel_range |-> 0,
     query_channel_scids |-> <<>>]

\* setup_gossip_range: what it queues to the new peer
setup_gossip_range(pr) ==
    IF pr.gossip_queries_feature THEN <<MsgGossipTimestampFilter(0, UINT32_MAX)>> ELSE <<>>

\* wake_gossip_out: the timer is freed; the write loop is woken
wake_gossip_out(pr) == [pr EXCEPT !.gossip_timer = FALSE]

\* gossip_timestamp_filter keeping the wrapped sum.
gossip_timestamp_filter_wraps(pr, first_timestamp, timestamp_range) ==
    LET woken == IF pr.gossip_timestamp_min > pr.gossip_timestamp_max
                 THEN [pr EXCEPT !.gossip_timer = FALSE] ELSE pr
        max == (first_timestamp + timestamp_range + 2^TsBits - 1) % 2^TsBits
    IN [woken EXCEPT !.gossip_timestamp_min = first_timestamp,
                     !.gossip_timestamp_max = max,
                     !.broadcast_index = 0]

\* gossip_timestamp_filter with the comparison of the saturation turned round.
gossip_timestamp_filter_saturates_wrong_side(pr, first_timestamp, timestamp_range) ==
    LET woken == IF pr.gossip_timestamp_min > pr.gossip_timestamp_max
                 THEN [pr EXCEPT !.gossip_timer = FALSE] ELSE pr
        max == (first_timestamp + timestamp_range + 2^TsBits - 1) % 2^TsBits
    IN [woken EXCEPT !.gossip_timestamp_min = first_timestamp,
                     !.gossip_timestamp_max = IF max > first_timestamp THEN UINT32_MAX ELSE max,
                     !.broadcast_index = 0]

\* gossip_timestamp_filter calling wake_gossip_out whatever the window was.
gossip_timestamp_filter_always_wakes(pr, first_timestamp, timestamp_range) ==
    LET woken == wake_gossip_out(pr)
        max == (first_timestamp + timestamp_range + 2^TsBits - 1) % 2^TsBits
    IN [woken EXCEPT !.gossip_timestamp_min = first_timestamp,
                     !.gossip_timestamp_max = IF max < first_timestamp THEN UINT32_MAX ELSE max,
                     !.broadcast_index = 0]

\* handle_gossip_timestamp_filter, for a well-formed message of our chain;
\* first_timestamp + timestamp_range - 1 is computed in u32
gossip_timestamp_filter(pr, first_timestamp, timestamp_range) ==
    LET woken == IF pr.gossip_timestamp_min > pr.gossip_timestamp_max
                 THEN wake_gossip_out(pr) ELSE pr
        max == (first_timestamp + timestamp_range + 2^TsBits - 1) % 2^TsBits
    IN [woken EXCEPT !.gossip_timestamp_min = first_timestamp,
                     !.gossip_timestamp_max = IF max < first_timestamp THEN UINT32_MAX ELSE max,
                     !.broadcast_index = 0]

\* next_broadcast(broadcasts, timestamp_min, timestamp_max, &index): the first
\* entry at or after the cursor whose timestamp is in the window; the cursor
\* moves past the entry returned and stays when there is none.
next_broadcast(log, timestamp_min, timestamp_max, index) ==
    LET hits == {i \in 0..(Len(log) - 1) :
                    /\ i >= index
                    /\ timestamp_min <= log[i + 1]
                    /\ log[i + 1] <= timestamp_max}
    IN IF hits = {} THEN [found |-> FALSE, entry |-> 0, index |-> index]
       ELSE [found |-> TRUE, entry |-> Min(hits), index |-> Min(hits) + 1]

\* uniquify_node_ids: the loop that drops adjacent equals, src from position k
RECURSIVE drop_adjacent(_, _, _)
drop_adjacent(ids, k, dst) ==
    IF k > Len(ids) THEN dst
    ELSE IF Len(dst) > 0 /\ dst[Len(dst)] = ids[k] THEN drop_adjacent(ids, k + 1, dst)
    ELSE drop_adjacent(ids, k + 1, Append(dst, ids[k]))

\* uniquify_node_ids without the sort.
uniquify_node_ids_unsorted(ids) == drop_adjacent(ids, 1, <<>>)

\* uniquify_node_ids: asort by pubkey_order, then drop adjacent equals
uniquify_node_ids(ids) ==
    drop_adjacent(SortSeq(ids, LAMBDA a, b : a < b), 1, <<>>)

\* create_next_scid_reply, first loop: the first i >= idx naming an announced
\* channel, or num
RECURSIVE scan_scids(_, _)
scan_scids(q, i) ==
    IF i >= Len(q) THEN Len(q)
    ELSE IF IsAnnouncedChan(q[i + 1]) THEN i
    ELSE scan_scids(q, i + 1)

\* create_next_scid_reply, second loop: the first i >= idx naming an announced
\* node, or num
RECURSIVE scan_nodes(_, _)
scan_nodes(ids, i) ==
    IF i >= Len(ids) THEN Len(ids)
    ELSE IF ids[i + 1] \in node_announced THEN i
    ELSE scan_nodes(ids, i + 1)

\* What one announced channel contributes to the reply.
chan_msgs(scid) ==
    <<MsgChannelAnnouncement(scid)>>
    \o (IF 0 \in chanmap[scid].update THEN <<MsgChannelUpdate(scid, 0)>> ELSE <<>>)
    \o (IF 1 \in chanmap[scid].update THEN <<MsgChannelUpdate(scid, 1)>> ELSE <<>>)

\* The node_announcements of the announced nodes among ids[k..].
RECURSIVE node_msgs_from(_, _)
node_msgs_from(ids, k) ==
    IF k > Len(ids) THEN <<>>
    ELSE (IF ids[k] \in node_announced THEN <<MsgNodeAnnouncement(ids[k])>> ELSE <<>>)
         \o node_msgs_from(ids, k + 1)

\* create_next_scid_reply with a second loop that does not test sent: it
\* runs after a channel was queued and goes through every recorded node.
create_next_scid_reply_nodes_loop_unguarded(pr) ==
    LET q == IF pr.scid_queries = NULL THEN <<>> ELSE Val(pr.scid_queries)
        nodes0 == IF pr.scid_query_nodes = NULL THEN <<>> ELSE Val(pr.scid_query_nodes)
        num == Len(q)
        hit == scan_scids(q, pr.scid_query_idx)
        sent1 == hit < num
        i == IF sent1 THEN hit + 1 ELSE num
        msgs1 == IF sent1 THEN chan_msgs(q[hit + 1]) ELSE <<>>
        nodes1 == IF sent1
                  THEN nodes0 \o <<ChanNodes(q[hit + 1])[1], ChanNodes(q[hit + 1])[2]>>
                  ELSE nodes0
        nodes2 == IF pr.scid_query_idx # num /\ i = num
                  THEN uniquify_node_ids(nodes1) ELSE nodes1
        numn == Len(nodes2)
        msgs2 == node_msgs_from(nodes2, pr.scid_query_nodes_idx + 1)
        j == IF pr.scid_query_nodes_idx > numn THEN pr.scid_query_nodes_idx ELSE numn
        finished == pr.scid_queries # NULL /\ j = numn
    IN IF finished
       THEN [peer |-> [pr EXCEPT !.scid_queries = NULL, !.scid_query_idx = 0,
                                 !.scid_query_nodes = NULL, !.scid_query_nodes_idx = 0],
             msgs |-> msgs1 \o msgs2 \o <<MsgReplyShortChannelIdsEnd>>,
             sent |-> TRUE,
             tested |-> [scid_query_idx |-> i, scids |-> num,
                         scid_query_nodes_idx |-> j, nodes |-> numn]]
       ELSE [peer |-> [pr EXCEPT !.scid_query_idx = i,
                                 !.scid_query_nodes =
                                     IF pr.scid_query_nodes = NULL THEN NULL ELSE Some(nodes2),
                                 !.scid_query_nodes_idx = j],
             msgs |-> msgs1 \o msgs2,
             sent |-> sent1 \/ msgs2 # <<>>,
             tested |-> [scid_query_idx |-> i, scids |-> num,
                         scid_query_nodes_idx |-> j, nodes |-> numn]]

\* create_next_scid_reply: the peer afterwards, the messages queued, the
\* result, and the cursors and array lengths as the "All finished?" test
\* finds them
create_next_scid_reply(pr) ==
    LET q == IF pr.scid_queries = NULL THEN <<>> ELSE Val(pr.scid_queries)
        nodes0 == IF pr.scid_query_nodes = NULL THEN <<>> ELSE Val(pr.scid_query_nodes)
        num == Len(q)
        hit == scan_scids(q, pr.scid_query_idx)
        sent1 == hit < num
        i == IF sent1 THEN hit + 1 ELSE num
        msgs1 == IF sent1 THEN chan_msgs(q[hit + 1]) ELSE <<>>
        nodes1 == IF sent1
                  THEN nodes0 \o <<ChanNodes(q[hit + 1])[1], ChanNodes(q[hit + 1])[2]>>
                  ELSE nodes0
        nodes2 == IF pr.scid_query_idx # num /\ i = num
                  THEN uniquify_node_ids(nodes1) ELSE nodes1
        numn == Len(nodes2)
        nhit == IF sent1 THEN pr.scid_query_nodes_idx
                ELSE scan_nodes(nodes2, pr.scid_query_nodes_idx)
        sent2 == ~sent1 /\ nhit < numn
        j == IF sent2 THEN nhit + 1 ELSE nhit
        msgs2 == IF sent2 THEN <<MsgNodeAnnouncement(nodes2[nhit + 1])>> ELSE <<>>
        finished == pr.scid_queries # NULL /\ j = numn
    IN IF finished
       THEN [peer |-> [pr EXCEPT !.scid_queries = NULL, !.scid_query_idx = 0,
                                 !.scid_query_nodes = NULL, !.scid_query_nodes_idx = 0],
             msgs |-> msgs1 \o msgs2 \o <<MsgReplyShortChannelIdsEnd>>,
             sent |-> TRUE,
             tested |-> [scid_query_idx |-> i, scids |-> num,
                         scid_query_nodes_idx |-> j, nodes |-> numn]]
       ELSE [peer |-> [pr EXCEPT !.scid_query_idx = i,
                                 !.scid_query_nodes =
                                     IF pr.scid_query_nodes = NULL THEN NULL ELSE Some(nodes2),
                                 !.scid_query_nodes_idx = j],
             msgs |-> msgs1 \o msgs2,
             sent |-> sent1 \/ sent2,
             tested |-> [scid_query_idx |-> i, scids |-> num,
                         scid_query_nodes_idx |-> j, nodes |-> numn]]

\* maybe_queue_gossip, the cursor left where it was when an entry is sent
maybe_queue_gossip_cursor_kept(pr) ==
    IF pr.gossip_timer \/ suppress_gossip
    THEN [peer |-> pr, msgs |-> <<>>, sent |-> FALSE]
    ELSE LET next == next_broadcast(broadcasts, pr.gossip_timestamp_min,
                                    pr.gossip_timestamp_max, pr.broadcast_index)
         IN IF next.found
            THEN [peer |-> [pr EXCEPT !.broadcast_index = pr.broadcast_index],
                  msgs |-> <<MsgBroadcast(next.entry)>>, sent |-> TRUE]
            ELSE [peer |-> [pr EXCEPT !.broadcast_index = next.index,
                                      !.gossip_timer = TRUE],
                  msgs |-> <<>>, sent |-> FALSE]

\* maybe_queue_gossip, the cursor put back to 0 when nothing is left to send
maybe_queue_gossip_cursor_rewound(pr) ==
    IF pr.gossip_timer \/ suppress_gossip
    THEN [peer |-> pr, msgs |-> <<>>, sent |-> FALSE]
    ELSE LET next == next_broadcast(broadcasts, pr.gossip_timestamp_min,
                                    pr.gossip_timestamp_max, pr.broadcast_index)
         IN IF next.found
            THEN [peer |-> [pr EXCEPT !.broadcast_index = next.index],
                  msgs |-> <<MsgBroadcast(next.entry)>>, sent |-> TRUE]
            ELSE [peer |-> [pr EXCEPT !.broadcast_index = 0,
                                      !.gossip_timer = TRUE],
                  msgs |-> <<>>, sent |-> FALSE]

\* maybe_queue_gossip, the cursor put back to 0 when an entry is sent
maybe_queue_gossip_cursor_restart(pr) ==
    IF pr.gossip_timer \/ suppress_gossip
    THEN [peer |-> pr, msgs |-> <<>>, sent |-> FALSE]
    ELSE LET next == next_broadcast(broadcasts, pr.gossip_timestamp_min,
                                    pr.gossip_timestamp_max, pr.broadcast_index)
         IN IF next.found
            THEN [peer |-> [pr EXCEPT !.broadcast_index = 0],
                  msgs |-> <<MsgBroadcast(next.entry)>>, sent |-> TRUE]
            ELSE [peer |-> [pr EXCEPT !.broadcast_index = next.index,
                                      !.gossip_timer = TRUE],
                  msgs |-> <<>>, sent |-> FALSE]

\* maybe_queue_gossip, the cursor moved one entry too far when an entry is sent
maybe_queue_gossip_cursor_skips(pr) ==
    IF pr.gossip_timer \/ suppress_gossip
    THEN [peer |-> pr, msgs |-> <<>>, sent |-> FALSE]
    ELSE LET next == next_broadcast(broadcasts, pr.gossip_timestamp_min,
                                    pr.gossip_timestamp_max, pr.broadcast_index)
         IN IF next.found
            THEN [peer |-> [pr EXCEPT !.broadcast_index = next.index + 1],
                  msgs |-> <<MsgBroadcast(next.entry)>>, sent |-> TRUE]
            ELSE [peer |-> [pr EXCEPT !.broadcast_index = next.index,
                                      !.gossip_timer = TRUE],
                  msgs |-> <<>>, sent |-> FALSE]

\* maybe_queue_gossip queueing the next two entries in one call.
maybe_queue_gossip_two(pr) ==
    IF pr.gossip_timer \/ suppress_gossip
    THEN [peer |-> pr, msgs |-> <<>>, sent |-> FALSE]
    ELSE LET next == next_broadcast(broadcasts, pr.gossip_timestamp_min,
                                    pr.gossip_timestamp_max, pr.broadcast_index)
             more == next_broadcast(broadcasts, pr.gossip_timestamp_min,
                                    pr.gossip_timestamp_max, next.index)
         IN IF next.found /\ more.found
            THEN [peer |-> [pr EXCEPT !.broadcast_index = more.index],
                  msgs |-> <<MsgBroadcast(next.entry), MsgBroadcast(more.entry)>>,
                  sent |-> TRUE]
            ELSE IF next.found
            THEN [peer |-> [pr EXCEPT !.broadcast_index = next.index],
                  msgs |-> <<MsgBroadcast(next.entry)>>, sent |-> TRUE]
            ELSE [peer |-> [pr EXCEPT !.broadcast_index = next.index,
                                      !.gossip_timer = TRUE],
                  msgs |-> <<>>, sent |-> FALSE]

\* maybe_queue_gossip arming the timer after every entry it queues.
maybe_queue_gossip_paced(pr) ==
    IF pr.gossip_timer \/ suppress_gossip
    THEN [peer |-> pr, msgs |-> <<>>, sent |-> FALSE]
    ELSE LET next == next_broadcast(broadcasts, pr.gossip_timestamp_min,
                                    pr.gossip_timestamp_max, pr.broadcast_index)
         IN IF next.found
            THEN [peer |-> [pr EXCEPT !.broadcast_index = next.index,
                                      !.gossip_timer = TRUE],
                  msgs |-> <<MsgBroadcast(next.entry)>>, sent |-> TRUE]
            ELSE [peer |-> [pr EXCEPT !.broadcast_index = next.index,
                                      !.gossip_timer = TRUE],
                  msgs |-> <<>>, sent |-> FALSE]

\* maybe_queue_gossip without the test of the suppress-gossip toggle.
maybe_queue_gossip_unsuppressed(pr) ==
    IF pr.gossip_timer
    THEN [peer |-> pr, msgs |-> <<>>, sent |-> FALSE]
    ELSE LET next == next_broadcast(broadcasts, pr.gossip_timestamp_min,
                                    pr.gossip_timestamp_max, pr.broadcast_index)
         IN IF next.found
            THEN [peer |-> [pr EXCEPT !.broadcast_index = next.index],
                  msgs |-> <<MsgBroadcast(next.entry)>>, sent |-> TRUE]
            ELSE [peer |-> [pr EXCEPT !.broadcast_index = next.index,
                                      !.gossip_timer = TRUE],
                  msgs |-> <<>>, sent |-> FALSE]

\* maybe_queue_gossip
maybe_queue_gossip(pr) ==
    IF pr.gossip_timer \/ suppress_gossip
    THEN [peer |-> pr, msgs |-> <<>>, sent |-> FALSE]
    ELSE LET next == next_broadcast(broadcasts, pr.gossip_timestamp_min,
                                    pr.gossip_timestamp_max, pr.broadcast_index)
         IN IF next.found
            THEN [peer |-> [pr EXCEPT !.broadcast_index = next.index],
                  msgs |-> <<MsgBroadcast(next.entry)>>, sent |-> TRUE]
            ELSE [peer |-> [pr EXCEPT !.broadcast_index = next.index,
                                      !.gossip_timer = TRUE],
                  msgs |-> <<>>, sent |-> FALSE]

\* dump_gossip trying the broadcast log before the query reply.
dump_gossip_broadcast_first(pr) ==
    LET g == maybe_queue_gossip(pr)
    IN IF g.sent THEN g ELSE create_next_scid_reply(g.peer)

\* dump_gossip
dump_gossip(pr) ==
    LET r == create_next_scid_reply(pr)
    IN IF r.sent THEN r ELSE maybe_queue_gossip(r.peer)

\* ------------------------------------------------ our channels, our node
\* The routing parameters of a channel_update: cltv_expiry_delta,
\* htlc_minimum_msat, fee_base_msat, fee_proportional_millionths,
\* htlc_maximum_msat.
BaseParams == <<0, 0, 0, 0, 0>>
\* The parameters a channel daemon may ask for: those, and those with one
\* of the five changed.
ParamsSet == {[BaseParams EXCEPT ![k] = v] : k \in 1..5, v \in {0, 1}}

\* Our half of a channel, as the routing core keeps it: the timestamp of its
\* channel_update, ROUTING_FLAGS_DISABLED of its channel_flags, and its
\* parameters. The half is defined when the channel's update set has our
\* direction.
Half(last_timestamp, disabled, params) ==
    [last_timestamp |-> last_timestamp, disabled |-> disabled, params |-> params]
DefaultHalf == Half(0, FALSE, BaseParams)

\* daemon->announcable, alias, rgb and globalfeatures; the same four fields
\* of a node's stored node_announcement.
Announce(addresses, alias, rgb, globalfeatures) ==
    [addresses |-> addresses, alias |-> alias, rgb |-> rgb, globalfeatures |-> globalfeatures]
BaseConfig == Announce(<<1>>, 0, 0, <<>>)

\* Our struct node: last_timestamp is -1 while it has no node_announcement.
Node(last_timestamp, ann) == [last_timestamp |-> last_timestamp, ann |-> ann]

\* What gossip_init finds when nothing of ours was ever announced, and the
\* one refresh timer it arms.
NoLocal ==
    [now |-> 0,
     half |-> [s \in SCIDs |-> DefaultHalf],
     node |-> Node(-1, BaseConfig),
     config |-> BaseConfig,
     local_channel_announced |-> FALSE,
     pending |-> {},
     refresh_timers |-> 1,
     tombstones |-> <<>>]

\* is_chan_public
is_chan_public(cm, scid) == cm[scid].announced

\* local_direction: the end of the channel that is ours, if one is
local_direction(scid) ==
    IF ChanNodes(scid)[1] = OurId THEN [found |-> TRUE, direction |-> 0]
    ELSE IF ChanNodes(scid)[2] = OurId THEN [found |-> TRUE, direction |-> 1]
    ELSE [found |-> FALSE, direction |-> 2]

\* is_halfchan_defined, for our half of a local channel
is_halfchan_defined(cm, scid) == local_direction(scid).direction \in cm[scid].update

\* The graph and what a step has done to it so far:
\*   cm, bc, na, lo   chanmap, broadcasts, node_announced, local
\*   made             in order, the channel_updates and node_announcements
\*                    the step generated and the calls of
\*                    maybe_send_own_node_announce it made
\*   queued           in order, the messages the step queued, each with the
\*                    peer it was queued to
Graph(cm, bc, na, lo) ==
    [cm |-> cm, bc |-> bc, na |-> na, lo |-> lo, made |-> <<>>, queued |-> <<>>]

\* handle_channel_update of the routing core, for an update of our half that
\* we signed: it is taken when the half has no update or an older one, and
\* ignored otherwise; the update of a public channel goes to the broadcast
\* log.
handle_channel_update(g, u) ==
    LET taken == ~is_halfchan_defined(g.cm, u.scid)
                 \/ u.timestamp > g.lo.half[u.scid].last_timestamp
        ev == [kind |-> "channel_update", scid |-> u.scid, timestamp |-> u.timestamp,
               disabled |-> u.disabled, params |-> u.params,
               prev |-> IF is_halfchan_defined(g.cm, u.scid)
                        THEN Some(g.lo.half[u.scid].last_timestamp) ELSE NULL,
               taken |-> taken, caller |-> u.caller]
    IN IF ~taken THEN [g EXCEPT !.made = Append(@, ev)]
       ELSE [g EXCEPT !.cm[u.scid].update = @ \cup {u.direction},
                      !.lo.half[u.scid] = Half(u.timestamp, u.disabled, u.params),
                      !.bc = IF is_chan_public(g.cm, u.scid) THEN Append(@, u.timestamp)
                             ELSE @,
                      !.made = Append(@, ev)]

\* update_local_channel: the timestamp of the update, timestamp++ being
\* computed in u32
cupdate_timestamp(defined, last_timestamp, now) ==
    IF defined /\ now = last_timestamp THEN (now + 1) % 2^TsBits ELSE now

\* update_local_channel that queues the update to the peer whether the
\* channel is public or not.
tell_peer_always(cm, list, scid) ==
    find_peer(list, other_node(OurId, scid))

\* update_local_channel: is the update queued to the peer at the other end
tell_peer(cm, list, scid) ==
    ~is_chan_public(cm, scid) /\ find_peer(list, other_node(OurId, scid))

\* update_local_channel
update_local_channel(g, list, scid, direction, disable, params, caller) ==
    LET timestamp == cupdate_timestamp(is_halfchan_defined(g.cm, scid),
                                       g.lo.half[scid].last_timestamp, g.lo.now)
        queued == IF tell_peer(g.cm, list, scid)
                  THEN Append(g.queued, [id |-> other_node(OurId, scid),
                                         msg |-> MsgChannelUpdate(scid, direction)])
                  ELSE g.queued
    IN handle_channel_update([g EXCEPT !.queued = queued],
                             [scid |-> scid, direction |-> direction,
                              timestamp |-> timestamp, disabled |-> disable,
                              params |-> params, caller |-> caller])

\* maybe_update_local_channel
maybe_update_local_channel(g, list, ld, scid, direction) ==
    IF ~is_halfchan_defined(g.cm, scid) THEN g
    ELSE IF ld[scid] = g.lo.half[scid].disabled THEN g
    ELSE update_local_channel(g, list, scid, direction, ld[scid],
                              g.lo.half[scid].params, "maybe_update_local_channel")

\* halfchan_new_info that looks at the fees only.
halfchan_new_info_fees_only(defined, hc, params) ==
    ~defined \/ hc.params[3] # params[3] \/ hc.params[4] # params[4]

\* halfchan_new_info
halfchan_new_info(defined, hc, params) ==
    IF ~defined THEN TRUE
    ELSE \/ hc.params[1] # params[1]
         \/ hc.params[2] # params[2]
         \/ hc.params[3] # params[3]
         \/ hc.params[4] # params[4]
         \/ hc.params[5] # params[5]

\* send_node_announcement with the test of update_local_channel: only a
\* clock reading equal to last_timestamp is moved.
nannounce_timestamp_equal_only(last_timestamp, now) ==
    IF now = last_timestamp THEN (last_timestamp + 1) % 2^TsBits ELSE now

\* send_node_announcement: the timestamp, a u32, against last_timestamp, an
\* s64 that is -1 when our node is unknown or was never announced
nannounce_timestamp(last_timestamp, now) ==
    IF now <= last_timestamp THEN (last_timestamp + 1) % 2^TsBits ELSE now

\* get_node(rstate, &daemon->id): our node is in the graph with our channels
self_known(cm) == node_chans(cm, OurId) # {}

\* send_node_announcement, with handle_node_announcement of the routing core
\* for an announcement we signed: it is taken when newer than the one our
\* node has, and ignored otherwise.
send_node_announcement(g) ==
    LET last_timestamp == IF self_known(g.cm) THEN g.lo.node.last_timestamp ELSE -1
        timestamp == nannounce_timestamp(last_timestamp, g.lo.now)
        taken == self_known(g.cm) /\ timestamp > g.lo.node.last_timestamp
        ev == [kind |-> "node_announcement", timestamp |-> timestamp,
               prev |-> last_timestamp, taken |-> taken]
    IN IF ~taken THEN [g EXCEPT !.made = Append(@, ev)]
       ELSE [g EXCEPT !.lo.node = Node(timestamp, g.lo.config),
                      !.na = @ \cup {OurId},
                      !.bc = Append(@, timestamp),
                      !.made = Append(@, ev)]

\* node_announcement_redundant that does not compare the addresses.
node_announcement_redundant_no_addresses(known, n, config) ==
    /\ known
    /\ n.last_timestamp # -1
    /\ config.alias = n.ann.alias
    /\ config.rgb = n.ann.rgb
    /\ config.globalfeatures = n.ann.globalfeatures

\* node_announcement_redundant
node_announcement_redundant(known, n, config) ==
    IF ~known THEN FALSE
    ELSE IF n.last_timestamp = -1 THEN FALSE
    ELSE IF Len(n.ann.addresses) # Len(config.addresses) THEN FALSE
    ELSE IF \E i \in 1..Len(n.ann.addresses) : n.ann.addresses[i] # config.addresses[i]
    THEN FALSE
    ELSE IF config.alias # n.ann.alias THEN FALSE
    ELSE IF config.rgb # n.ann.rgb THEN FALSE
    ELSE IF config.globalfeatures # n.ann.globalfeatures THEN FALSE
    ELSE TRUE

\* maybe_send_own_node_announce
maybe_send_own_node_announce(g) ==
    LET called == [g EXCEPT !.made = Append(@, [kind |-> "maybe_send_own_node_announce",
                                                announced |-> g.lo.local_channel_announced,
                                                node |-> g.lo.node,
                                                config |-> g.lo.config])]
    IN IF ~g.lo.local_channel_announced THEN called
       ELSE IF node_announcement_redundant(self_known(g.cm), g.lo.node, g.lo.config)
       THEN called
       ELSE [send_node_announcement(called) EXCEPT !.lo.local_channel_announced = FALSE]

\* ------------------------------------------------------------- Init
\* gossip_init: no peer yet; the graph is what gossip_store_load left
Init ==
    /\ peers = {}
    /\ peer = [p \in PeerIds |-> DeadPeer]
    /\ broadcasts = <<>>
    /\ chanmap = OneGraph.cm
    /\ node_announced = OneGraph.na
    /\ suppress_gossip = FALSE
    /\ hist = [p \in PeerIds |-> NoHist]
    /\ peer_list = <<>>
    /\ local_disabled = gossip_disable_local_channels(chanmap)
    /\ max_scids_encode_bytes = NoEncodeCap
    /\ sent = NoSent
    /\ local = NoLocal

\* A log of three entries with increasing timestamps, all of them inside
\* the window of a filter (0, UINT32_MAX); the steps are recorded.
PacedLog == <<0, 1, 2>>
InitPaced ==
    /\ peers = {}
    /\ peer = [p \in PeerIds |-> DeadPeer]
    /\ broadcasts = PacedLog
    /\ chanmap = OneGraph.cm
    /\ node_announced = OneGraph.na
    /\ suppress_gossip = FALSE
    /\ hist = [p \in PeerIds |-> NoHist]
    /\ peer_list = <<>>
    /\ local_disabled = gossip_disable_local_channels(chanmap)
    /\ max_scids_encode_bytes = NoEncodeCap
    /\ sent = Recording
    /\ local = NoLocal

\* The caps dev_set_max_scids_encode_size is given: room for no id, for
\* one, for two, and no cap.
EncodeCaps == {1, 9, 17, NoEncodeCap}

\* Any set of the three channels, an empty broadcast log; the steps are
\* recorded.
InitRange ==
    /\ peers = {}
    /\ peer = [p \in PeerIds |-> DeadPeer]
    /\ broadcasts = <<>>
    /\ chanmap \in [SCIDs -> {NoChan, Chan(TRUE, {0, 1})}]
    /\ node_announced = {}
    /\ suppress_gossip = FALSE
    /\ hist = [p \in PeerIds |-> NoHist]
    /\ peer_list = <<>>
    /\ local_disabled = gossip_disable_local_channels(chanmap)
    /\ max_scids_encode_bytes = NoEncodeCap
    /\ sent = Recording
    /\ local = NoLocal

\* As Init, the steps recorded.
InitQueries ==
    /\ peers = {}
    /\ peer = [p \in PeerIds |-> DeadPeer]
    /\ broadcasts = <<>>
    /\ chanmap = OneGraph.cm
    /\ node_announced = OneGraph.na
    /\ suppress_gossip = FALSE
    /\ hist = [p \in PeerIds |-> NoHist]
    /\ peer_list = <<>>
    /\ local_disabled = gossip_disable_local_channels(chanmap)
    /\ max_scids_encode_bytes = NoEncodeCap
    /\ sent = Recording
    /\ local = NoLocal

\* The same, for any of the graphs.
InitScid ==
    /\ peers = {}
    /\ peer = [p \in PeerIds |-> DeadPeer]
    /\ broadcasts = <<>>
    /\ \E g \in Graphs : chanmap = g.cm /\ node_announced = g.na
    /\ suppress_gossip = FALSE
    /\ hist = [p \in PeerIds |-> NoHist]
    /\ peer_list = <<>>
    /\ local_disabled = gossip_disable_local_channels(chanmap)
    /\ max_scids_encode_bytes = NoEncodeCap
    /\ sent = NoSent
    /\ local = NoLocal

\* Observation: the broadcast-log entries among msgs are counted.
RECURSIVE count_emitted(_, _)
count_emitted(counts, msgs) ==
    IF msgs = <<>> THEN counts
    ELSE LET m == Head(msgs)
         IN count_emitted(IF m.type = "broadcast"
                          THEN [counts EXCEPT ![m.a + 1] = Bump(@)] ELSE counts,
                          Tail(msgs))

\* Observation: a finished reply is forgotten one step after its terminator.
settle(h, pr) ==
    IF h.query # NULL /\ pr.scid_queries = NULL
    THEN [h EXCEPT !.query = NULL, !.reply = <<>>, !.other = FALSE, !.wakes = 0]
    ELSE h

H == [p \in PeerIds |-> settle(hist[p], peer[p])]

\* Observation: a handler other than the pump queued msgs to the peer.
hist_other(h, pr, msgs) ==
    IF msgs # <<>> /\ pr.scid_queries # NULL THEN [h EXCEPT !.other = TRUE] ELSE h

\* Observation: the shape of an accepted gossip_timestamp_filter: a range of
\* 0, a range that takes first + range - 1 beyond UINT32_MAX, or neither.
filter_kind(first_timestamp, timestamp_range) ==
    IF timestamp_range = 0 THEN "zero"
    ELSE IF first_timestamp + timestamp_range - 1 > UINT32_MAX THEN "overflow"
    ELSE "plain"

\* Observation: the log entries among msgs.
RECURSIVE n_broadcast(_)
n_broadcast(msgs) ==
    IF msgs = <<>> THEN 0
    ELSE (IF Head(msgs).type = "broadcast" THEN 1 ELSE 0) + n_broadcast(Tail(msgs))

\* Observation: the requests of the master less the replies to it, after a
\* step that ran this handler and sent these messages.
owed_after(owed, op, to_control) ==
    LET replies(type) == Cardinality({k \in 1..Len(to_control) : to_control[k].type = type})
        request(name) == IF op = name THEN 1 ELSE 0
    IN [ping |-> owed.ping + request("ping_req") - replies("gossip_ping_reply"),
        query_scids |-> owed.query_scids + request("query_scids_req")
                           - replies("gossip_scids_reply"),
        query_channel_range |-> owed.query_channel_range
                                   + request("query_channel_range_req")
                                   - replies("gossip_query_channel_range_reply")]

\* Observation: what a step queued, in a run that records it.
Observe(step, to_peer, to_control, burst) ==
    IF sent.rec
    THEN [rec |-> TRUE, step |-> step, to_peer |-> to_peer, to_control |-> to_control,
          burst |-> IF burst > 3 THEN 3 ELSE burst,
          count |-> sent.count,
          owed |-> IF sent.count THEN owed_after(sent.owed, step.op, to_control)
                   ELSE sent.owed,
          made |-> <<>>, queued |-> <<>>]
    ELSE sent

\* The entries counted in epoch.
Emitted(counts) == {i \in 0..(Len(counts) - 1) : counts[i + 1] > 0}

\* connectd_new_peer. The step records the peer of this id that was killed,
\* if one was.
ConnectdNewPeer(id, gq, irs, socketpair_ok) ==
    IF ~socketpair_ok
    THEN /\ hist' = H
         /\ sent' = Observe(Step("connectd_new_peer", id, <<gq, irs, socketpair_ok>>),
                            <<>>, <<MsgNewPeerReply(FALSE)>>, sent.burst)
         /\ UNCHANGED <<local, peers, peer, broadcasts, chanmap, node_announced, suppress_gossip,
                        peer_list, local_disabled, max_scids_encode_bytes>>
    ELSE LET pr == wake_gossip_out(new_peer_state(gq, irs, Len(broadcasts)))
             d == kill_old_peer(peer_list, chanmap, local_disabled, id)
         IN /\ peer_list' = Append(d.peer_list, id)
            /\ peers' = Range(peer_list')
            /\ local_disabled' = d.local_disabled
            /\ peer' = [peer EXCEPT ![id] = pr]
            /\ sent' = Observe(Step("connectd_new_peer", id,
                                    <<gq, irs, socketpair_ok,
                                      IF find_peer(peer_list, id) THEN Some(peer[id])
                                      ELSE NULL>>),
                               setup_gossip_range(pr), <<MsgNewPeerReply(TRUE)>>, 0)
            /\ UNCHANGED max_scids_encode_bytes
            /\ hist' = [H EXCEPT ![id] =
                          hist_other([NoHist EXCEPT !.epoch = Zeros(Len(broadcasts)),
                                                    !.created_at = IF gq THEN 0
                                                                   ELSE Len(broadcasts)],
                                     pr, setup_gossip_range(pr))]
            /\ UNCHANGED <<local, broadcasts, chanmap, node_announced, suppress_gossip>>

\* destroy_peer, run when the peer's connection is closed or the peer is freed.
\* The step records the channel flags it found.
DestroyPeer(id) ==
    /\ id \in peers
    /\ LET d == destroy_peer(peer_list, chanmap, local_disabled, id)
       IN /\ peer_list' = d.peer_list
          /\ peers' = Range(peer_list')
          /\ local_disabled' = d.local_disabled
          /\ peer' = [peer EXCEPT ![id] = IF find_peer(peer_list', id) THEN @ ELSE DeadPeer]
    /\ hist' = [H EXCEPT ![id] = NoHist]
    /\ sent' = Observe(Step("destroy_peer", id, <<local_disabled>>),
                       <<>>, <<>>, 0)
    /\ UNCHANGED <<local, broadcasts, chanmap, node_announced, suppress_gossip,
                   max_scids_encode_bytes>>

\* owner_msg_in -> handle_gossip_timestamp_filter
HandleGossipTimestampFilter(id, wellformed, chain, first_timestamp, timestamp_range) ==
    /\ id \in peers
    /\ UNCHANGED <<local, peers, broadcasts, chanmap, node_announced, suppress_gossip,
                   peer_list, local_disabled, max_scids_encode_bytes>>
    /\ IF ~wellformed
       THEN /\ hist' = [H EXCEPT ![id] = hist_other(@, peer[id], <<MsgError>>)]
            /\ sent' = Observe(Step("gossip_timestamp_filter", id, <<wellformed, chain>>),
                               <<MsgError>>, <<>>, sent.burst)
            /\ UNCHANGED peer
       ELSE IF chain # OurChain
       THEN /\ hist' = H
            /\ sent' = Observe(Step("gossip_timestamp_filter", id, <<wellformed, chain>>),
                               <<>>, <<>>, sent.burst)
            /\ UNCHANGED peer
       ELSE /\ peer' = [peer EXCEPT ![id] =
                           gossip_timestamp_filter(@, first_timestamp, timestamp_range)]
            /\ sent' = Observe(Step("gossip_timestamp_filter", id, <<wellformed, chain>>),
                               <<>>, <<>>, 0)
            /\ hist' = [H EXCEPT ![id].last_filter = filter_kind(first_timestamp, timestamp_range),
                                 ![id].prev = @ \cup Emitted(H[id].epoch),
                                 ![id].epoch = Zeros(Len(broadcasts))]

\* owner_msg_in -> handle_query_short_channel_ids; decoded is NULL when
\* decode_short_ids fails
HandleQueryShortChannelIds(id, wellformed, chain, decoded) ==
    /\ id \in peers
    /\ UNCHANGED <<local, peers, broadcasts, chanmap, node_announced, suppress_gossip,
                   peer_list, local_disabled, max_scids_encode_bytes>>
    /\ IF ~wellformed
       THEN /\ hist' = [H EXCEPT ![id] = hist_other(@, peer[id], <<MsgError>>)]
            /\ sent' = Observe(Step("query_short_channel_ids", id, <<wellformed, chain>>),
                               <<MsgError>>, <<>>, sent.burst)
            /\ UNCHANGED peer
       ELSE IF chain # OurChain
       THEN /\ hist' = H
            /\ sent' = Observe(Step("query_short_channel_ids", id, <<wellformed, chain>>),
                               <<>>, <<>>, sent.burst)
            /\ UNCHANGED peer
       ELSE IF peer[id].scid_queries # NULL \/ peer[id].scid_query_nodes # NULL
       THEN /\ hist' = [H EXCEPT ![id] = hist_other(@, peer[id], <<MsgError>>)]
            /\ sent' = Observe(Step("query_short_channel_ids", id, <<wellformed, chain>>),
                               <<MsgError>>, <<>>, sent.burst)
            /\ UNCHANGED peer
       ELSE IF decoded = NULL
       THEN /\ hist' = [H EXCEPT ![id] = hist_other(@, peer[id], <<MsgError>>)]
            /\ sent' = Observe(Step("query_short_channel_ids", id, <<wellformed, chain>>),
                               <<MsgError>>, <<>>, sent.burst)
            /\ UNCHANGED peer
       ELSE /\ peer' = [peer EXCEPT ![id].scid_queries = decoded,
                                    ![id].scid_query_idx = 0,
                                    ![id].scid_query_nodes = Some(<<>>)]
            /\ sent' = Observe(Step("query_short_channel_ids", id, <<wellformed, chain>>),
                               <<>>, <<>>, sent.burst)
            /\ hist' = [H EXCEPT ![id].query = decoded,
                                 ![id].reply = <<>>,
                                 ![id].other = FALSE,
                                 ![id].wakes = 0]

\* The write loop calls dump_gossip for a woken peer whose queue is empty.
DumpGossip(id) ==
    /\ id \in peers
    /\ LET pr == peer[id]
           r == dump_gossip(pr)
       IN /\ peer' = [peer EXCEPT ![id] = r.peer]
          /\ hist' = [H EXCEPT ![id].epoch = count_emitted(@, r.msgs),
                               ![id].reply = IF pr.scid_queries # NULL THEN @ \o r.msgs ELSE @,
                               ![id].wakes = IF pr.scid_queries # NULL /\ @ < MaxWakes
                                             THEN @ + 1 ELSE @]
          /\ sent' = Observe(Step("dump_gossip", id, <<>>),
                             r.msgs, <<>>, sent.burst + n_broadcast(r.msgs))
    /\ UNCHANGED <<local, peers, broadcasts, chanmap, node_announced, suppress_gossip,
                   peer_list, local_disabled, max_scids_encode_bytes>>

\* The same step for a peer with no query to answer: create_next_scid_reply
\* queues nothing and leaves the peer as it is, and dump_gossip goes on to
\* maybe_queue_gossip.
DumpGossipNoQuery(id) ==
    /\ id \in peers
    /\ peer[id].scid_queries = NULL /\ peer[id].scid_query_nodes = NULL
    /\ LET r == maybe_queue_gossip(peer[id])
       IN /\ peer' = [peer EXCEPT ![id] = r.peer]
          /\ hist' = [H EXCEPT ![id].epoch = count_emitted(@, r.msgs)]
          /\ sent' = Observe(Step("dump_gossip", id, <<>>),
                             r.msgs, <<>>, sent.burst + n_broadcast(r.msgs))
    /\ UNCHANGED <<local, peers, broadcasts, chanmap, node_announced, suppress_gossip,
                   peer_list, local_disabled, max_scids_encode_bytes>>

\* The paced-out timer fires: wake_gossip_out
GossipTimerFire(id) ==
    /\ id \in peers
    /\ peer[id].gossip_timer
    /\ peer' = [peer EXCEPT ![id] = wake_gossip_out(@)]
    /\ hist' = H
    /\ sent' = Observe(Step("wake_gossip_out", id, <<>>),
                       <<>>, <<>>, 0)
    /\ UNCHANGED <<local, peers, broadcasts, chanmap, node_announced, suppress_gossip,
                   peer_list, local_disabled, max_scids_encode_bytes>>

\* The routing core accepts a message and appends it to the broadcast log.
InsertBroadcast(timestamp) ==
    /\ Len(broadcasts) < MaxLog
    /\ broadcasts' = Append(broadcasts, timestamp)
    /\ hist' = [p \in PeerIds |->
                  IF p \in peers THEN [H[p] EXCEPT !.epoch = Append(@, 0)] ELSE H[p]]
    /\ sent' = Observe(Step("insert_broadcast", 0, <<>>),
                       <<>>, <<>>, sent.burst)
    /\ UNCHANGED <<local, peers, peer, chanmap, node_announced, suppress_gossip,
                   peer_list, local_disabled, max_scids_encode_bytes>>

\* dev_gossip_suppress
DevGossipSuppress ==
    /\ suppress_gossip' = TRUE
    /\ hist' = H
    /\ sent' = Observe(Step("dev_gossip_suppress", 0, <<>>),
                       <<>>, <<>>, sent.burst)
    /\ UNCHANGED <<local, peers, peer, broadcasts, chanmap, node_announced,
                   peer_list, local_disabled, max_scids_encode_bytes>>

\* owner_msg_in -> handle_query_channel_range
HandleQueryChannelRange(id, wellformed, chain, first_blocknum, number_of_blocks) ==
    /\ id \in peers
    /\ LET msgs == handle_query_channel_range(chanmap, max_scids_encode_bytes, wellformed,
                                              chain, first_blocknum, number_of_blocks)
       IN /\ hist' = [H EXCEPT ![id] = hist_other(@, peer[id], msgs)]
          /\ sent' = Observe(Step("query_channel_range", id,
                                  <<wellformed, chain, first_blocknum, number_of_blocks>>),
                             msgs, <<>>, sent.burst)
    /\ UNCHANGED <<local, peers, peer, broadcasts, chanmap, node_announced, suppress_gossip,
                   peer_list, local_disabled, max_scids_encode_bytes>>

\* Observation: the messages of msgs that are of a type.
RECURSIVE n_type(_, _)
n_type(msgs, type) ==
    IF msgs = <<>> THEN 0
    ELSE (IF Head(msgs).type = type THEN 1 ELSE 0) + n_type(Tail(msgs), type)

\* Observation: the queries sent and the completions forwarded are counted.
tally(h, r) ==
    [h EXCEPT !.scids_sent = @ + n_type(r.to_peer, "query_short_channel_ids"),
              !.ends_accepted = @ + n_type(SelectSeq(r.to_control,
                                                     LAMBDA m : m.type = "gossip_scids_reply"
                                                                /\ m.ok),
                                           "gossip_scids_reply")]

\* A handler that touches nothing but the peer it runs for: the peer it
\* leaves is stored and what it queued is sent.
Apply(id, step, r) ==
    /\ peer' = [peer EXCEPT ![id] = r.peer]
    /\ hist' = [H EXCEPT ![id] = tally(hist_other(@, peer[id], r.to_peer), r)]
    /\ sent' = Observe(step, r.to_peer, r.to_control, sent.burst)
    /\ UNCHANGED <<local, peers, broadcasts, chanmap, node_announced, suppress_gossip,
                   peer_list, local_disabled, max_scids_encode_bytes>>

\* owner_msg_in -> handle_reply_short_channel_ids_end
HandleReplyShortChannelIdsEnd(id, wellformed, chain, complete) ==
    /\ id \in peers
    /\ Apply(id, Step("reply_short_channel_ids_end", id, <<wellformed, chain>>),
             handle_reply_short_channel_ids_end(peer[id], wellformed, chain, complete))

\* owner_msg_in -> handle_reply_channel_range
HandleReplyChannelRange(id, wellformed, chain, first_blocknum, number_of_blocks, complete, decoded) ==
    /\ id \in peers
    /\ peer[id].query_channel_scids # NULL /\ decoded # NULL
       => Len(Val(peer[id].query_channel_scids)) + Len(Val(decoded)) <= MaxRangeScids
    /\ Apply(id, Step("reply_channel_range", id,
                       <<wellformed, chain, decoded, first_blocknum, number_of_blocks>>),
             handle_reply_channel_range(peer[id], wellformed, chain, first_blocknum,
                                        number_of_blocks, complete, decoded))

\* owner_msg_in -> handle_pong
HandlePong(id, wellformed, len) ==
    /\ id \in peers
    /\ Apply(id, Step("pong", id, <<wellformed>>),
             handle_pong(peer[id], wellformed, len))

\* The master's query_scids_req, for a peer that may be unknown
QueryScidsReq(id, scids) ==
    /\ hist[id].scids_sent < MaxScidQueries
    /\ Apply(id, Step("query_scids_req", id, <<>>),
             query_scids_req(peer[id], find_peer(peer_list, id), max_scids_encode_bytes,
                             scids))

\* The master's query_channel_range, for a peer that may be unknown
QueryChannelRange(id, first_blocknum, number_of_blocks) ==
    Apply(id, Step("query_channel_range_req", id, <<>>),
          query_channel_range(peer[id], find_peer(peer_list, id), first_blocknum,
                              number_of_blocks))

\* The master's ping, for a peer that may be unknown
Ping(id, num_pong_bytes) ==
    /\ peer[id].num_pings_outstanding < MaxPings
    /\ Apply(id, Step("ping_req", id, <<>>),
             ping_req(peer[id], find_peer(peer_list, id), num_pong_bytes))

\* The messages of a step that were queued to this peer, in order.
queued_to(queued, id) ==
    LET mine == SelectSeq(queued, LAMBDA q : q.id = id)
    IN [k \in 1..Len(mine) |-> mine[k].msg]

\* A handler that works on the graph: the graph it leaves is stored, what it
\* queued to peers and what it sent on the stream of the peer it ran for
\* (reply) and to the master (to_control) is sent. The broadcast log holds
\* MaxLog entries.
Commit(id, step, g, reply, to_control) ==
    /\ Len(g.bc) <= MaxLog
    /\ chanmap' = g.cm
    /\ broadcasts' = g.bc
    /\ node_announced' = g.na
    /\ local' = g.lo
    /\ hist' = [p \in PeerIds |->
                  LET msgs == queued_to(g.queued, p) \o (IF p = id THEN reply ELSE <<>>)
                      h == hist_other(H[p], peer[p], msgs)
                  IN IF p \in peers
                     THEN [h EXCEPT !.epoch = @ \o Zeros(Len(g.bc) - Len(broadcasts))]
                     ELSE h]
    /\ sent' = [Observe(step, queued_to(g.queued, id) \o reply, to_control, sent.burst)
                   EXCEPT !.made = IF sent.rec THEN g.made ELSE <<>>,
                          !.queued = IF sent.rec THEN g.queued ELSE <<>>]
    /\ UNCHANGED <<peers, peer, suppress_gossip, peer_list, max_scids_encode_bytes>>

\* The graph a handler starts from.
G == Graph(chanmap, broadcasts, node_announced, local)

\* handle_local_channel_update: the graph it leaves
handle_local_channel_update(g, list, scid, disable, params) ==
    LET direction == local_direction(scid).direction
        hc == g.lo.half[scid]
        defined == is_halfchan_defined(g.cm, scid)
    IN IF \/ halfchan_new_info(defined, hc, params)
          \/ (defined /\ hc.disabled /\ ~disable)
          \/ ~is_chan_public(g.cm, scid)
       THEN update_local_channel(g, list, scid, direction, disable, params,
                                 "handle_local_channel_update")
       ELSE g

\* owner_msg_in -> handle_local_channel_update, sent by the peer's channel
\* daemon
HandleLocalChannelUpdate(id, wellformed, scid, disable, params) ==
    /\ id \in peers
    /\ IF ~wellformed \/ ~chanmap[scid].present \/ ~local_direction(scid).found
       THEN /\ Commit(id, Step("local_channel_update", id,
                               <<wellformed, scid, disable, params>>),
                      G, <<>>, <<>>)
            /\ UNCHANGED local_disabled
       ELSE /\ Commit(id, Step("local_channel_update", id,
                               <<wellformed, scid, disable, params>>),
                      handle_local_channel_update(G, peer_list, scid, disable, params),
                      <<>>, <<>>)
            /\ local_disabled' = [local_disabled EXCEPT ![scid] = disable]

\* handle_get_update, for a channel of ours: the graph it leaves
handle_get_update(g, list, ld, scid) ==
    maybe_update_local_channel(g, list, ld, scid, local_direction(scid).direction)

\* chan->half[direction].channel_update, as handle_get_update replies it
channel_update_of(g, scid) ==
    IF is_halfchan_defined(g.cm, scid) THEN Some(g.lo.half[scid]) ELSE NULL

\* owner_msg_in -> handle_get_update, sent by the peer's channel daemon
HandleGetUpdate(id, wellformed, scid) ==
    /\ id \in peers
    /\ UNCHANGED local_disabled
    /\ IF ~wellformed
       THEN Commit(id, Step("get_update", id, <<wellformed, scid>>), G, <<>>, <<>>)
       ELSE IF ~chanmap[scid].present \/ ~local_direction(scid).found
       THEN Commit(id, Step("get_update", id, <<wellformed, scid>>), G,
                   <<MsgGetUpdateReply(NULL)>>, <<>>)
       ELSE LET g == handle_get_update(G, peer_list, local_disabled, scid)
            IN Commit(id, Step("get_update", id, <<wellformed, scid>>), g,
                      <<MsgGetUpdateReply(channel_update_of(g, scid))>>, <<>>)

\* gossip_refresh_network that sends the keep-alive of a disabled half too.
keepalive_due_disabled_too(defined, hc, highwater) ==
    defined /\ hc.last_timestamp <= highwater

\* gossip_refresh_network: the three tests a half passes before its
\* keep-alive is sent
keepalive_due(defined, hc, highwater) ==
    IF ~defined THEN FALSE
    ELSE IF hc.last_timestamp > highwater THEN FALSE
    ELSE IF hc.disabled THEN FALSE
    ELSE TRUE

\* gossip_send_keepalive_update that repeats the flag of the graph.
gossip_send_keepalive_update_graph_flag(g, list, ld, scid) ==
    update_local_channel(g, list, scid, local_direction(scid).direction,
                         g.lo.half[scid].disabled, g.lo.half[scid].params,
                         "gossip_send_keepalive_update")

\* gossip_send_keepalive_update: the update has the parameters of the half
\* and chan->local_disabled
gossip_send_keepalive_update(g, list, ld, scid) ==
    update_local_channel(g, list, scid, local_direction(scid).direction,
                         ld[scid], g.lo.half[scid].params,
                         "gossip_send_keepalive_update")

\* gossip_refresh_network, over the channels of our node in the order of
\* their ids: the keep-alive of a half that is defined, enabled and not
\* updated since highwater
RECURSIVE refresh_chans(_, _, _, _)
refresh_chans(g, list, ld, todo) ==
    IF todo = {} THEN g
    ELSE LET scid == Min(todo)
             hc == g.lo.half[scid]
             highwater == g.lo.now - PruneTimeout \div 2
             next == IF ~keepalive_due(is_halfchan_defined(g.cm, scid), hc, highwater)
                     THEN g
                     ELSE gossip_send_keepalive_update(g, list, ld, scid)
         IN refresh_chans(next, list, ld, todo \ {scid})

\* gossip_refresh_network: the next run is scheduled, then the sweep.
\* route_prune drops the channels not updated for prune_timeout, which the
\* clock of a run does not reach.
gossip_refresh_network(g, list, ld) ==
    refresh_chans([g EXCEPT !.lo.refresh_timers = @ + 1], list, ld, node_chans(g.cm, OurId))

\* The refresh timer expires: it leaves daemon->timers and its callback runs.
GossipRefreshNetwork ==
    /\ local.refresh_timers > 0
    /\ Commit(0, Step("gossip_refresh_network", 0, <<>>),
              gossip_refresh_network([G EXCEPT !.lo.refresh_timers = @ - 1],
                                     peer_list, local_disabled),
              <<>>, <<>>)
    /\ UNCHANGED local_disabled

\* handle_pending_cannouncement of the routing core: the channel whose
\* funding output the master was asked for becomes a public channel if the
\* output is there, and a public channel of ours sets local_channel_announced.
handle_pending_cannouncement(g, scid, unspent) ==
    IF scid \notin g.lo.pending THEN g
    ELSE IF ~unspent THEN [g EXCEPT !.lo.pending = @ \ {scid}]
    ELSE [g EXCEPT !.lo.pending = @ \ {scid},
                   !.cm[scid] = Chan(TRUE, g.cm[scid].update),
                   !.lo.local_channel_announced = @ \/ local_direction(scid).found]

\* handle_txout_reply without the node announcement.
handle_txout_reply_no_announce(g, scid, unspent) ==
    handle_pending_cannouncement(g, scid, unspent)

\* handle_txout_reply
handle_txout_reply(g, scid, unspent) ==
    maybe_send_own_node_announce(handle_pending_cannouncement(g, scid, unspent))

\* The master's gossip_get_txout_reply
HandleTxoutReply(scid, unspent) ==
    /\ Commit(0, Step("get_txout_reply", 0, <<scid, unspent>>),
              handle_txout_reply(G, scid, unspent), <<>>, <<>>)
    /\ UNCHANGED local_disabled

\* handle_gossip_msg, with the routing core's handlers: one that fails
\* returns an error and changes nothing. A channel_announcement of a channel
\* that is not public yet is kept pending and its id returned; a
\* node_announcement of a node with a public channel and a channel_update of
\* a known channel are taken, that of a public channel into the broadcast
\* log. The channel_update is that of the end that is not ours.
handle_gossip_msg(g, type, n, fails) ==
    IF fails THEN [g |-> g, err |-> TRUE, to_control |-> <<>>]
    ELSE IF type = "channel_announcement"
    THEN IF is_chan_public(g.cm, n) \/ n \in g.lo.pending
         THEN [g |-> g, err |-> FALSE, to_control |-> <<>>]
         ELSE [g |-> [g EXCEPT !.lo.pending = @ \cup {n}], err |-> FALSE,
               to_control |-> <<MsgGetTxout(n)>>]
    ELSE IF type = "node_announcement"
    THEN [g |-> IF \E s \in node_chans(g.cm, n) : is_chan_public(g.cm, s)
                THEN [g EXCEPT !.na = @ \cup {n}, !.bc = Append(@, g.lo.now)]
                ELSE g,
          err |-> FALSE, to_control |-> <<>>]
    ELSE LET theirs == IF local_direction(n).found
                       THEN 1 - local_direction(n).direction ELSE 0
             taken == IF ~g.cm[n].present THEN g
                      ELSE [g EXCEPT !.cm[n].update = @ \cup {theirs},
                                     !.bc = IF is_chan_public(g.cm, n)
                                            THEN Append(@, g.lo.now) ELSE @]
         IN [g |-> maybe_send_own_node_announce(taken), err |-> FALSE,
             to_control |-> <<>>]

\* owner_msg_in, for a gossip message of the peer: n is the channel or the
\* node it is about
HandleGossipMsg(id, type, n, fails) ==
    /\ id \in peers
    /\ LET r == handle_gossip_msg(G, type, n, fails)
       IN Commit(id, Step("gossip_msg", id, <<type, n, fails>>), r.g,
                 IF r.err THEN <<MsgError>> ELSE <<>>, r.to_control)
    /\ UNCHANGED local_disabled

\* tal_free(chan), with the destructor of the routing core: the channel
\* leaves the graph with its halves and its local_disabled flag, and a node
\* left without a channel leaves it with its announcement.
destroy_chan(g, scid) ==
    LET cm == [g.cm EXCEPT ![scid] = NoChan]
        left == {n \in g.na : node_chans(cm, n) # {}}
    IN [g EXCEPT !.cm = cm,
                 !.na = left,
                 !.lo.half[scid] = DefaultHalf,
                 !.lo.node = IF node_chans(cm, OurId) = {} THEN Node(-1, BaseConfig) ELSE @]

\* handle_outpoint_spent that writes nothing to the store.
handle_outpoint_spent_no_tombstone(g, scid) ==
    IF g.cm[scid].present THEN destroy_chan(g, scid) ELSE g

\* handle_outpoint_spent: the graph and the store it leaves
handle_outpoint_spent(g, scid) ==
    IF g.cm[scid].present
    THEN [destroy_chan(g, scid) EXCEPT !.lo.tombstones = Append(@, scid)]
    ELSE g

\* The master's gossip_outpoint_spent. One that does not parse ends the
\* daemon (master_badmsg).
HandleOutpointSpent(scid) ==
    /\ Commit(0, Step("outpoint_spent", 0, <<scid>>), handle_outpoint_spent(G, scid),
              <<>>, <<>>)
    /\ local_disabled' = IF chanmap[scid].present
                         THEN [local_disabled EXCEPT ![scid] = FALSE]
                         ELSE local_disabled

\* handle_local_channel_close: the flags it leaves
handle_local_channel_close(cm, ld, scid) ==
    IF cm[scid].present THEN [ld EXCEPT ![scid] = TRUE] ELSE ld

\* The master's gossip_local_channel_close. One that does not parse ends the
\* daemon (master_badmsg).
HandleLocalChannelClose(scid) ==
    /\ Commit(0, Step("local_channel_close", 0, <<scid>>), G, <<>>, <<>>)
    /\ local_disabled' = handle_local_channel_close(chanmap, local_disabled, scid)

\* A second passes.
Tick ==
    /\ local.now < UINT32_MAX
    /\ local' = [local EXCEPT !.now = @ + 1]
    /\ hist' = H
    /\ sent' = Observe(Step("tick", 0, <<>>), <<>>, <<>>, sent.burst)
    /\ UNCHANGED <<peers, peer, broadcasts, chanmap, node_announced, suppress_gossip,
                   peer_list, local_disabled, max_scids_encode_bytes>>

\* The reply_short_channel_ids_end messages a peer may send.
ReplyEndMsgs ==
    {[ok |-> FALSE, chain |-> OurChain, complete |-> 1],
     [ok |-> TRUE, chain |-> "foreign", complete |-> 1],
     [ok |-> TRUE, chain |-> OurChain, complete |-> 0],
     [ok |-> TRUE, chain |-> OurChain, complete |-> 1]}

\* The encoded ids a reply_channel_range may carry: NULL when they do not
\* decode.
ReplyScids == {NULL, Some(<<1>>), Some(<<2>>)}

\* The reply_channel_range messages a peer may send.
ReplyRangeMsgs ==
    {[ok |-> FALSE, chain |-> OurChain, first |-> 0, num |-> 0, complete |-> 1,
      decoded |-> Some(<<>>)],
     [ok |-> TRUE, chain |-> "foreign", first |-> 0, num |-> 1, complete |-> 1,
      decoded |-> Some(<<>>)]}
    \cup {[ok |-> TRUE, chain |-> OurChain, first |-> f, num |-> n, complete |-> 1,
           decoded |-> d] : f \in U32, n \in U32, d \in ReplyScids}
    \cup {[ok |-> TRUE, chain |-> OurChain, first |-> f, num |-> 1, complete |-> 0,
           decoded |-> Some(<<>>)] : f \in U32}

\* A malformed reply_channel_range, one of a foreign chain, one that does
\* not decode, and replies for one block or two.
FewReplyRangeMsgs ==
    {[ok |-> FALSE, chain |-> OurChain, first |-> 0, num |-> 0, complete |-> 1,
      decoded |-> Some(<<>>)],
     [ok |-> TRUE, chain |-> "foreign", first |-> 0, num |-> 1, complete |-> 1,
      decoded |-> Some(<<>>)],
     [ok |-> TRUE, chain |-> OurChain, first |-> 1, num |-> 1, complete |-> 1,
      decoded |-> NULL]}
    \cup {[ok |-> TRUE, chain |-> OurChain, first |-> w[1], num |-> w[2], complete |-> 1,
           decoded |-> d] :
             w \in {<<0, 1>>, <<1, 1>>, <<2, 1>>, <<1, 2>>}, d \in {Some(<<1>>), Some(<<2>>)}}

\* A malformed filter, one of a foreign chain, and the filter that asks for
\* everything.
FewFilterMsgs ==
    {[ok |-> FALSE, chain |-> OurChain, first |-> 0, range |-> 0],
     [ok |-> TRUE, chain |-> "foreign", first |-> 0, range |-> UINT32_MAX],
     [ok |-> TRUE, chain |-> OurChain, first |-> 0, range |-> UINT32_MAX]}

\* A malformed query_channel_range, one of a foreign chain, one whose sum
\* overflows and one for blocks 0 to 2.
FewRangeMsgs ==
    {[ok |-> FALSE, chain |-> OurChain, first |-> 0, num |-> 0],
     [ok |-> TRUE, chain |-> "foreign", first |-> 0, num |-> 1],
     [ok |-> TRUE, chain |-> OurChain, first |-> 1, num |-> UINT32_MAX],
     [ok |-> TRUE, chain |-> OurChain, first |-> 0, num |-> 3]}

\* The windows the master asks a peer for: no block, blocks 1 and 2, blocks
\* 0 to 2.
RangeReqs == {<<0, 0>>, <<1, 2>>, <<0, 3>>}

\* dev_set_max_scids_encode_size
DevSetMaxScidsEncodeSize(max) ==
    /\ max_scids_encode_bytes' = max
    /\ hist' = H
    /\ sent' = Observe(Step("dev_set_max_scids_encode_size", 0, <<max>>),
                       <<>>, <<>>, sent.burst)
    /\ UNCHANGED <<local, peers, peer, broadcasts, chanmap, node_announced, suppress_gossip,
                   peer_list, local_disabled>>

\* The query_channel_range messages a peer may send: malformed, of a foreign
\* chain, or of our chain with any first_blocknum and number_of_blocks.
RangeMsgs ==
    {[ok |-> FALSE, chain |-> OurChain, first |-> 0, num |-> 0],
     [ok |-> TRUE, chain |-> "foreign", first |-> 0, num |-> 1]}
    \cup {[ok |-> TRUE, chain |-> OurChain, first |-> f, num |-> n] : f \in U32, n \in U32}

\* The gossip_timestamp_filter messages a peer may send: malformed, of a
\* foreign chain, or of our chain with any first_timestamp and timestamp_range.
FilterMsgs ==
    {[ok |-> FALSE, chain |-> OurChain, first |-> 0, range |-> 0],
     [ok |-> TRUE, chain |-> "foreign", first |-> 0, range |-> UINT32_MAX]}
    \cup {[ok |-> TRUE, chain |-> OurChain, first |-> f, range |-> r] : f \in U32, r \in U32}

\* The query_short_channel_ids messages a peer may send: malformed, of a
\* foreign chain, with an encoding that does not decode, or carrying a list.
QueryMsgs(lists) ==
    {[ok |-> FALSE, chain |-> OurChain, decoded |-> NULL],
     [ok |-> TRUE, chain |-> "foreign", decoded |-> Some(<<1>>)],
     [ok |-> TRUE, chain |-> OurChain, decoded |-> NULL]}
    \cup {[ok |-> TRUE, chain |-> OurChain, decoded |-> Some(q)] : q \in lists}

Next ==
    \/ \E id \in PeerIds, gq \in BOOLEAN, irs \in BOOLEAN, ok \in BOOLEAN :
          ConnectdNewPeer(id, gq, irs, ok)
    \/ \E id \in PeerIds : DestroyPeer(id)
    \/ \E id \in PeerIds, m \in FilterMsgs :
          HandleGossipTimestampFilter(id, m.ok, m.chain, m.first, m.range)
    \/ \E id \in PeerIds, m \in QueryMsgs(FewQueries) :
          HandleQueryShortChannelIds(id, m.ok, m.chain, m.decoded)
    \/ \E id \in PeerIds : DumpGossip(id)
    \/ \E id \in PeerIds : GossipTimerFire(id)
    \/ \E ts \in LogTimestamps : InsertBroadcast(ts)
    \/ DevGossipSuppress

Spec == Init /\ [][Next]_vars

\* Sessions and the broadcast log, without queries and without the developer
\* switch; the pump runs whenever the write loop is woken, and an armed timer
\* fires.
NextFair ==
    \/ \E id \in PeerIds, gq \in BOOLEAN, irs \in BOOLEAN, ok \in BOOLEAN :
          ConnectdNewPeer(id, gq, irs, ok)
    \/ \E id \in PeerIds : DestroyPeer(id)
    \/ \E id \in PeerIds, m \in FilterMsgs :
          HandleGossipTimestampFilter(id, m.ok, m.chain, m.first, m.range)
    \/ \E id \in PeerIds : DumpGossipNoQuery(id)
    \/ \E id \in PeerIds : GossipTimerFire(id)
    \/ \E ts \in LogTimestamps : InsertBroadcast(ts)

FairSpec ==
    /\ Init /\ [][NextFair]_vars
    /\ \A id \in PeerIds : WF_vars(DumpGossipNoQuery(id)) /\ WF_vars(GossipTimerFire(id))

\* Sessions and their short_channel_id queries, over every graph, with an
\* empty broadcast log.
NextScid ==
    \/ \E id \in PeerIds, gq \in BOOLEAN, irs \in BOOLEAN, ok \in BOOLEAN :
          ConnectdNewPeer(id, gq, irs, ok)
    \/ \E id \in PeerIds : DestroyPeer(id)
    \/ \E id \in PeerIds, m \in QueryMsgs(Queries) :
          HandleQueryShortChannelIds(id, m.ok, m.chain, m.decoded)
    \/ \E id \in PeerIds : DumpGossip(id)
    \/ \E id \in PeerIds : GossipTimerFire(id)

SpecScid == InitScid /\ [][NextScid]_vars

\* The same sessions and queries, the steps recorded.
InitAnswer ==
    /\ peers = {}
    /\ peer = [p \in PeerIds |-> DeadPeer]
    /\ broadcasts = <<>>
    /\ \E g \in Graphs : chanmap = g.cm /\ node_announced = g.na
    /\ suppress_gossip = FALSE
    /\ hist = [p \in PeerIds |-> NoHist]
    /\ peer_list = <<>>
    /\ local_disabled = gossip_disable_local_channels(chanmap)
    /\ max_scids_encode_bytes = NoEncodeCap
    /\ sent = Recording
    /\ local = NoLocal

SpecAnswer == InitAnswer /\ [][NextScid]_vars

\* The graphs an SCID reply is explored with while the graph changes:
\* channel 1 between nodes 2 and 3, with or without channel 3 between us and
\* node 3, all announced; nodes 2 and 3 announced.
ReplyGraphs ==
    {[cm |-> [s \in SCIDs |-> IF s = 1 \/ (s = 3 /\ with3) THEN Chan(TRUE, {0, 1}) ELSE NoChan],
      na |-> {2, 3}] : with3 \in BOOLEAN}
\* The queries answered meanwhile.
ReplyQueries == {<<>>, <<1>>, <<3, 1>>}

\* One entry in the broadcast log; the steps recorded.
InitReply ==
    /\ peers = {}
    /\ peer = [p \in PeerIds |-> DeadPeer]
    /\ broadcasts = <<1>>
    /\ \E g \in ReplyGraphs : chanmap = g.cm /\ node_announced = g.na
    /\ suppress_gossip = FALSE
    /\ hist = [p \in PeerIds |-> NoHist]
    /\ peer_list = <<>>
    /\ local_disabled = gossip_disable_local_channels(chanmap)
    /\ max_scids_encode_bytes = NoEncodeCap
    /\ sent = Recording
    /\ local = NoLocal

\* Sessions, SCID queries and the pump, while funding outputs are spent and
\* the peer's announcements and the master's answers about funding outputs
\* add nodes and channels.
NextReply ==
    \/ \E id \in PeerIds, gq \in BOOLEAN, irs \in BOOLEAN :
          ConnectdNewPeer(id, gq, irs, TRUE)
    \/ \E id \in PeerIds : DestroyPeer(id)
    \/ \E id \in PeerIds, m \in QueryMsgs(ReplyQueries) :
          HandleQueryShortChannelIds(id, m.ok, m.chain, m.decoded)
    \/ \E id \in PeerIds : DumpGossip(id)
    \/ \E id \in PeerIds : GossipTimerFire(id)
    \/ \E scid \in {1, 3} : HandleOutpointSpent(scid)
    \/ HandleTxoutReply(3, TRUE)
    \/ \E id \in PeerIds,
          m \in {<<"channel_announcement", 3>>, <<"node_announcement", 2>>,
                 <<"node_announcement", 3>>} :
          HandleGossipMsg(id, m[1], m[2], FALSE)

SpecReply == InitReply /\ [][NextReply]_vars

\* Sessions and their gossip_timestamp_filter messages, with an empty
\* broadcast log.
NextFilter ==
    \/ \E id \in PeerIds, gq \in BOOLEAN, irs \in BOOLEAN, ok \in BOOLEAN :
          ConnectdNewPeer(id, gq, irs, ok)
    \/ \E id \in PeerIds : DestroyPeer(id)
    \/ \E id \in PeerIds, m \in FilterMsgs :
          HandleGossipTimestampFilter(id, m.ok, m.chain, m.first, m.range)
    \/ \E id \in PeerIds : DumpGossip(id)
    \/ \E id \in PeerIds : GossipTimerFire(id)

SpecFilter == Init /\ [][NextFilter]_vars

\* Sessions over a fixed log of three entries, the steps recorded.
NextPaced ==
    \/ \E id \in PeerIds, gq \in BOOLEAN, irs \in BOOLEAN, ok \in BOOLEAN :
          ConnectdNewPeer(id, gq, irs, ok)
    \/ \E id \in PeerIds : DestroyPeer(id)
    \/ \E id \in PeerIds, m \in FilterMsgs :
          HandleGossipTimestampFilter(id, m.ok, m.chain, m.first, m.range)
    \/ \E id \in PeerIds : DumpGossip(id)
    \/ \E id \in PeerIds : GossipTimerFire(id)

SpecPaced == InitPaced /\ [][NextPaced]_vars

\* Sessions over a log of three entries with filters, SCID queries, the
\* pump and the suppress-gossip toggle, the steps recorded.
NextSuppress ==
    \/ \E id \in PeerIds, gq \in BOOLEAN, irs \in BOOLEAN :
          ConnectdNewPeer(id, gq, irs, TRUE)
    \/ \E id \in PeerIds : DestroyPeer(id)
    \/ \E id \in PeerIds, m \in FewFilterMsgs :
          HandleGossipTimestampFilter(id, m.ok, m.chain, m.first, m.range)
    \/ \E id \in PeerIds, m \in QueryMsgs(FewQueries) :
          HandleQueryShortChannelIds(id, m.ok, m.chain, m.decoded)
    \/ \E id \in PeerIds : DumpGossip(id)
    \/ \E id \in PeerIds : GossipTimerFire(id)
    \/ DevGossipSuppress

SpecSuppress == InitPaced /\ [][NextSuppress]_vars

\* Sessions and their query_channel_range messages, over every set of
\* channels and every cap, the steps recorded.
NextRange ==
    \/ \E id \in PeerIds, gq \in BOOLEAN, irs \in BOOLEAN, ok \in BOOLEAN :
          ConnectdNewPeer(id, gq, irs, ok)
    \/ \E id \in PeerIds : DestroyPeer(id)
    \/ \E id \in PeerIds, m \in RangeMsgs :
          HandleQueryChannelRange(id, m.ok, m.chain, m.first, m.num)
    \/ \E max \in EncodeCaps : DevSetMaxScidsEncodeSize(max)

SpecRange == InitRange /\ [][NextRange]_vars

\* Sessions, the queries a peer sends and the queries the master has sent to
\* it, with the replies to them; the steps recorded.
NextQueries ==
    \/ \E id \in PeerIds, gq \in BOOLEAN, irs \in BOOLEAN, ok \in BOOLEAN :
          ConnectdNewPeer(id, gq, irs, ok)
    \/ \E id \in PeerIds : DestroyPeer(id)
    \/ \E id \in PeerIds, m \in FewFilterMsgs :
          HandleGossipTimestampFilter(id, m.ok, m.chain, m.first, m.range)
    \/ \E id \in PeerIds, m \in QueryMsgs(FewQueries) :
          HandleQueryShortChannelIds(id, m.ok, m.chain, m.decoded)
    \/ \E id \in PeerIds, m \in FewRangeMsgs :
          HandleQueryChannelRange(id, m.ok, m.chain, m.first, m.num)
    \/ \E id \in PeerIds, m \in ReplyEndMsgs :
          HandleReplyShortChannelIdsEnd(id, m.ok, m.chain, m.complete)
    \/ \E id \in PeerIds, m \in FewReplyRangeMsgs :
          HandleReplyChannelRange(id, m.ok, m.chain, m.first, m.num, m.complete, m.decoded)
    \/ \E id \in PeerIds : QueryScidsReq(id, <<1>>)
    \/ \E id \in PeerIds, req \in RangeReqs : QueryChannelRange(id, req[1], req[2])
    \/ \E id \in PeerIds : DumpGossip(id)

SpecQueries == InitQueries /\ [][NextQueries]_vars

\* Sessions, the queries the master has sent to a peer and every reply to
\* them; the steps recorded.
NextOutbound ==
    \/ \E id \in PeerIds, gq \in BOOLEAN, irs \in BOOLEAN, ok \in BOOLEAN :
          ConnectdNewPeer(id, gq, irs, ok)
    \/ \E id \in PeerIds : DestroyPeer(id)
    \/ \E id \in PeerIds, m \in ReplyEndMsgs :
          HandleReplyShortChannelIdsEnd(id, m.ok, m.chain, m.complete)
    \/ \E id \in PeerIds, m \in ReplyRangeMsgs :
          HandleReplyChannelRange(id, m.ok, m.chain, m.first, m.num, m.complete, m.decoded)
    \/ \E id \in PeerIds, scids \in FewQueries : QueryScidsReq(id, scids)
    \/ \E id \in PeerIds, req \in RangeReqs : QueryChannelRange(id, req[1], req[2])
    \/ \E max \in EncodeCaps : DevSetMaxScidsEncodeSize(max)

SpecOutbound == InitQueries /\ [][NextOutbound]_vars

\* The graphs the sessions of a peer are explored with: channel 1 between
\* the peer's node and node 3, channel 2 between us and the peer's node, not
\* public, channel 3 between us and node 3; and channel 3 alone, where the
\* peer has no node in the graph.
PeerGraphs ==
    {[s \in SCIDs |-> IF s = 2 THEN Chan(FALSE, {}) ELSE Chan(TRUE, {0, 1})],
     [s \in SCIDs |-> IF s = 3 THEN Chan(TRUE, {0, 1}) ELSE NoChan]}

InitPeers ==
    /\ peers = {}
    /\ peer = [p \in PeerIds |-> DeadPeer]
    /\ broadcasts = <<>>
    /\ chanmap \in PeerGraphs
    /\ node_announced = {3}
    /\ suppress_gossip = FALSE
    /\ hist = [p \in PeerIds |-> NoHist]
    /\ peer_list = <<>>
    /\ local_disabled = gossip_disable_local_channels(chanmap)
    /\ max_scids_encode_bytes = NoEncodeCap
    /\ sent = Recording
    /\ local = NoLocal

\* Sessions of a peer that come and go while the peer has queries in flight
\* in both directions, a ping outstanding and its timer armed, and while the
\* channel daemons enable and disable our channels; the steps recorded.
NextPeers ==
    \/ \E id \in PeerIds, gq \in BOOLEAN, irs \in BOOLEAN, ok \in BOOLEAN :
          ConnectdNewPeer(id, gq, irs, ok)
    \/ \E id \in PeerIds : DestroyPeer(id)
    \/ \E id \in PeerIds, ok \in BOOLEAN, scid \in SCIDs, disable \in BOOLEAN :
          HandleLocalChannelUpdate(id, ok, scid, disable, BaseParams)
    \/ \E id \in PeerIds : HandleQueryShortChannelIds(id, TRUE, OurChain, Some(<<1>>))
    \/ \E id \in PeerIds : QueryScidsReq(id, <<1>>)
    \/ \E id \in PeerIds : QueryChannelRange(id, 1, 2)
    \/ \E id \in PeerIds : Ping(id, 0)
    \/ \E id \in PeerIds : HandlePong(id, TRUE, 0)
    \/ \E id \in PeerIds : DumpGossip(id)
    \/ \E id \in PeerIds : GossipTimerFire(id)

SpecPeers == InitPeers /\ [][NextPeers]_vars

\* As InitQueries, the requests of the master and the replies to it counted.
InitControl ==
    /\ peers = {}
    /\ peer = [p \in PeerIds |-> DeadPeer]
    /\ broadcasts = <<>>
    /\ chanmap = OneGraph.cm
    /\ node_announced = OneGraph.na
    /\ suppress_gossip = FALSE
    /\ hist = [p \in PeerIds |-> NoHist]
    /\ peer_list = <<>>
    /\ local_disabled = gossip_disable_local_channels(chanmap)
    /\ max_scids_encode_bytes = NoEncodeCap
    /\ sent = Counting
    /\ local = NoLocal

\* The pongs and the replies a peer may send at any moment, and the three
\* commands of the master they complete, for peers that come and go. The
\* master sends no request of a kind while MaxOwed of them have no reply.
NextControl ==
    \/ \E id \in PeerIds, gq \in BOOLEAN, irs \in BOOLEAN, ok \in BOOLEAN :
          ConnectdNewPeer(id, gq, irs, ok)
    \/ \E id \in PeerIds : DestroyPeer(id)
    \/ \E id \in PeerIds, n \in {0, 65531, 65532} :
          sent.owed.ping < MaxOwed /\ Ping(id, n)
    \/ \E id \in PeerIds, ok \in BOOLEAN, len \in {0, 1} : HandlePong(id, ok, len)
    \/ \E id \in PeerIds, scids \in FewQueries :
          sent.owed.query_scids < MaxOwed /\ QueryScidsReq(id, scids)
    \/ \E id \in PeerIds, m \in ReplyEndMsgs :
          HandleReplyShortChannelIdsEnd(id, m.ok, m.chain, m.complete)
    \/ \E id \in PeerIds, req \in RangeReqs :
          sent.owed.query_channel_range < MaxOwed /\ QueryChannelRange(id, req[1], req[2])
    \/ \E id \in PeerIds, m \in FewReplyRangeMsgs :
          HandleReplyChannelRange(id, m.ok, m.chain, m.first, m.num, m.complete, m.decoded)

SpecControl == InitControl /\ [][NextControl]_vars

\* The graphs our own channels are explored with: channel 1 between nodes
\* 2 and 3, public, no channel 3, and channel 2 between us and node 2, the
\* peer's, either not public and without an update of ours or public with
\* one.
LocalGraphs ==
    {[s \in SCIDs |-> IF s = 1 THEN Chan(TRUE, {0, 1}) ELSE IF s = 2 THEN c ELSE NoChan] :
        c \in {Chan(FALSE, {}), Chan(TRUE, {0, 1})}}

\* The node_announcements of ours the gossip store may hold: none, one that
\* matches the configuration, one that differs from it in the addresses (an
\* element, the count), the alias, the colour or the features, one dated
\* after the clock, and one with the last timestamp there is.
StoredNodes ==
    {Node(-1, BaseConfig), Node(0, BaseConfig),
     Node(0, [BaseConfig EXCEPT !.addresses = <<2>>]),
     Node(0, [BaseConfig EXCEPT !.addresses = <<1, 1>>]),
     Node(0, [BaseConfig EXCEPT !.alias = 1]),
     Node(0, [BaseConfig EXCEPT !.rgb = 1]),
     Node(0, [BaseConfig EXCEPT !.globalfeatures = <<1>>]),
     Node(1, [BaseConfig EXCEPT !.alias = 1]),
     Node(UINT32_MAX, [BaseConfig EXCEPT !.alias = 1])}

\* gossip_init: the store is loaded, our channels are disabled and
\* maybe_send_own_node_announce runs; the steps are recorded. lo is our end
\* of the graph as gossip_store_load left it.
gossip_init_at(cm, lo) ==
    LET g == maybe_send_own_node_announce(Graph(cm, <<>>, {}, lo))
    IN /\ peers = {}
       /\ peer = [p \in PeerIds |-> DeadPeer]
       /\ broadcasts = g.bc
       /\ chanmap = g.cm
       /\ node_announced = g.na
       /\ suppress_gossip = FALSE
       /\ hist = [p \in PeerIds |-> NoHist]
       /\ peer_list = <<>>
       /\ local_disabled = gossip_disable_local_channels(chanmap)
       /\ max_scids_encode_bytes = NoEncodeCap
       /\ sent = [Recording EXCEPT !.step = Step("gossip_init", 0,
                                                 <<lo.node, lo.local_channel_announced>>),
                                   !.made = g.made]
       /\ local = g.lo

\* gossip_init with the halves of an empty store
gossip_init(cm, n, announced, now) ==
    gossip_init_at(cm, [NoLocal EXCEPT !.now = now, !.node = n,
                                       !.local_channel_announced = announced])

\* Our node was never announced; the clock starts one second after the
\* updates of the store.
InitLocal == \E cm \in LocalGraphs : gossip_init(cm, Node(-1, BaseConfig), FALSE, 1)

\* Our channels: the requests of a peer's channel daemon and the refresh
\* timer, while the clock runs and the peer comes and goes.
NextLocal ==
    \/ \E id \in PeerIds : ConnectdNewPeer(id, FALSE, FALSE, TRUE)
    \/ \E id \in PeerIds : DestroyPeer(id)
    \/ \E id \in PeerIds, ok \in BOOLEAN, scid \in SCIDs, disable \in BOOLEAN,
          params \in ParamsSet :
          HandleLocalChannelUpdate(id, ok, scid, disable, params)
    \/ \E id \in PeerIds, ok \in BOOLEAN, scid \in SCIDs : HandleGetUpdate(id, ok, scid)
    \/ GossipRefreshNetwork
    \/ Tick

SpecLocal == InitLocal /\ [][NextLocal]_vars

\* Any of the stored announcements, local_channel_announced as the store
\* left it, the clock at 0, or at its last second when the stored
\* announcement is of that second.
InitSelf ==
    \E cm \in LocalGraphs, n \in StoredNodes, announced \in BOOLEAN :
       gossip_init(cm, n, announced, IF n.last_timestamp = UINT32_MAX THEN UINT32_MAX ELSE 0)

\* Our node: the gossip of the peer, the master's answers about funding
\* outputs, and the channel_updates we generate ourselves.
NextSelf ==
    \/ \E id \in PeerIds : ConnectdNewPeer(id, FALSE, FALSE, TRUE)
    \/ \E id \in PeerIds :
          HandleLocalChannelUpdate(id, TRUE, 2, FALSE, [BaseParams EXCEPT ![3] = 1])
    \/ \E id \in PeerIds : HandleGetUpdate(id, TRUE, 2)
    \/ GossipRefreshNetwork
    \/ \E scid \in SCIDs, unspent \in BOOLEAN : HandleTxoutReply(scid, unspent)
    \/ \E id \in PeerIds, fails \in BOOLEAN,
          m \in {<<"channel_announcement", 2>>, <<"node_announcement", 3>>,
                 <<"channel_update", 2>>, <<"channel_update", 1>>} :
          HandleGossipMsg(id, m[1], m[2], fails)

SpecSelf == InitSelf /\ [][NextSelf]_vars

\* The graphs the refresh sweep is explored with: channel 1 between nodes 2
\* and 3, channels 2 and 3 ours, each public with its updates, or channel 2
\* not public and without an update of ours, or channel 3 unknown.
SweepGraphs ==
    {[s \in SCIDs |-> IF s = 1 THEN Chan(TRUE, {0, 1}) ELSE IF s = 2 THEN c2 ELSE c3] :
        c2 \in {Chan(FALSE, {}), Chan(TRUE, {0, 1})},
        c3 \in {NoChan, Chan(TRUE, {0, 1})}}
\* Our halves as the store left them: updated at second 0 or 1, enabled or
\* disabled; those of channel 3 have a cltv_expiry_delta of their own.
SweepHalves ==
    {[s \in SCIDs |-> IF s = 2 THEN Half(t2, d2, BaseParams)
                      ELSE IF s = 3 THEN Half(t3, d3, [BaseParams EXCEPT ![1] = 1])
                      ELSE DefaultHalf] :
        t2 \in {0, 1}, d2 \in BOOLEAN, t3 \in {0, 1}, d3 \in BOOLEAN}

\* The clock starts at second 1.
InitSweep ==
    \E cm \in SweepGraphs, half \in SweepHalves :
       gossip_init_at(cm, [NoLocal EXCEPT !.now = 1, !.half = half])

\* The refresh timer, while the clock runs, the peer comes and goes and its
\* channel daemon enables and disables our channels.
NextSweep ==
    \/ \E id \in PeerIds : ConnectdNewPeer(id, FALSE, FALSE, TRUE)
    \/ \E id \in PeerIds : DestroyPeer(id)
    \/ \E id \in PeerIds, scid \in {2, 3}, disable \in BOOLEAN :
          HandleLocalChannelUpdate(id, TRUE, scid, disable, local.half[scid].params)
    \/ GossipRefreshNetwork
    \/ Tick

SpecSweep == InitSweep /\ [][NextSweep]_vars

\* The master's news of funding outputs and closing channels, while the
\* peer comes and goes and its channel daemon sets our channels.
NextClose ==
    \/ \E id \in PeerIds : ConnectdNewPeer(id, FALSE, FALSE, TRUE)
    \/ \E id \in PeerIds : DestroyPeer(id)
    \/ \E id \in PeerIds, scid \in SCIDs, disable \in BOOLEAN :
          HandleLocalChannelUpdate(id, TRUE, scid, disable, BaseParams)
    \/ \E id \in PeerIds, scid \in SCIDs : HandleGetUpdate(id, TRUE, scid)
    \/ \E scid \in SCIDs : HandleOutpointSpent(scid)
    \/ \E scid \in SCIDs : HandleLocalChannelClose(scid)
    \/ GossipRefreshNetwork

SpecClose == InitSweep /\ [][NextClose]_vars

\* Most ids in an array that is encoded.
MaxEncoded == 3
\* The bodies encoded: 8 bytes for each id.
BodyLens == {8 * n : n \in 0..MaxEncoded}
\* What zlib makes of a body: a stream of 8 bytes at least (header, one
\* block, checksum), up to 11 bytes longer than the body.
ZLens(len) == {z \in 8..(len + 11) : z \in {8, len - 5, len - 1, len, len + 1, len + 11}}
\* The room the callers have: for the type byte only, for one id, for two,
\* and that of a reply_channel_range.
MaxBytes == {1, 9, 17, max_encoded_bytes}

\* An array is finalised: the step records the encoding left and the value
\* returned.
EncodeEnd(len, zlen, z_ok, max_bytes) ==
    /\ hist' = H
    /\ sent' = [Observe(Step("encode_short_channel_ids_end", 0,
                             <<len, zlen, z_ok, max_scids_encode_bytes, max_bytes>>),
                        <<>>, <<>>, sent.burst)
                   EXCEPT !.made = <<encode_end(len, zlen, z_ok, max_scids_encode_bytes,
                                                max_bytes)>>]
    /\ UNCHANGED <<local, peers, peer, broadcasts, chanmap, node_announced, suppress_gossip,
                   peer_list, local_disabled, max_scids_encode_bytes>>

\* The encoder, under every cap the developer may set.
NextEncode ==
    \/ \E max \in EncodeCaps : DevSetMaxScidsEncodeSize(max)
    \/ \E len \in BodyLens, z_ok \in BOOLEAN, max_bytes \in MaxBytes :
          \E zlen \in ZLens(len) : EncodeEnd(len, zlen, z_ok, max_bytes)

SpecEncode == InitRange /\ [][NextEncode]_vars

\* ------------------------------------------------------------ the claims
InFlight(id) == peer[id].scid_queries # NULL
Filtered(id) == hist[id].last_filter # "none"
InWindow(id, i) ==
    /\ peer[id].gossip_timestamp_min <= broadcasts[i + 1]
    /\ broadcasts[i + 1] <= peer[id].gossip_timestamp_max
Entries == 0..(Len(broadcasts) - 1)
\* The entries emitted to the peer in its session.
EmittedEver(id) == hist[id].prev \cup Emitted(hist[id].epoch)
\* The step emits entry i to the peer.
EmitsNow(id, i) ==
    /\ id \in peers /\ id \in peers'
    /\ i + 1 <= Len(hist[id].epoch) /\ Len(hist'[id].epoch) = Len(hist[id].epoch)
    /\ hist'[id].epoch[i + 1] > hist[id].epoch[i + 1]
\* The step creates the peer's session.
IsNewPeer(id) == \E gq \in BOOLEAN, irs \in BOOLEAN : ConnectdNewPeer(id, gq, irs, TRUE)
\* The step processes a gossip_timestamp_filter of our chain from the peer.
IsFilter(id) ==
    \E first \in U32, range \in U32 : HandleGossipTimestampFilter(id, TRUE, OurChain, first, range)

\* C1, as stated: every broadcast-log entry is emitted to a peer at most once
\* during the peer's session, whatever the peer sends.
C1_AtMostOncePerSession ==
    \A id \in peers : \A i \in Entries :
        /\ hist[id].epoch[i + 1] <= 1
        /\ ~(i \in hist[id].prev /\ hist[id].epoch[i + 1] >= 1)

\* C1, amended: every broadcast-log entry is emitted to a peer at most once
\* between two settings of the peer's cursor (its creation and each
\* gossip_timestamp_filter of our chain it sends).
C1_AtMostOncePerCursorReset ==
    \A id \in peers : \A i \in Entries : hist[id].epoch[i + 1] <= 1

\* A peer that received both entries, sent a filter, and received both again.
C1_Witness ==
    \E id \in peers :
        /\ Filtered(id)
        /\ hist[id].prev = {0, 1}
        /\ hist[id].epoch = <<1, 1>>

\* C3, as stated: broadcast_index never decreases from one step to the next
\* after the peer was created.
C3_CursorNeverDecreases ==
    [][\A id \in PeerIds :
          \/ ~(id \in peers /\ id \in peers')
          \/ peer'[id].broadcast_index >= peer[id].broadcast_index
          \/ IsNewPeer(id)]_vars

\* C3, amended: broadcast_index never decreases in a step other than the
\* processing of a gossip_timestamp_filter of our chain, which sets it to 0.
C3_CursorDecreasesOnlyOnFilter ==
    [][\A id \in PeerIds :
          \/ ~(id \in peers /\ id \in peers')
          \/ peer'[id].broadcast_index >= peer[id].broadcast_index
          \/ IsNewPeer(id)
          \/ IsFilter(id) /\ peer'[id].broadcast_index = 0]_vars

\* A peer whose cursor moved past both entries of the log.
C3_Witness ==
    \E id \in peers :
        /\ peer[id].broadcast_index = 2
        /\ hist[id].epoch = <<1, 1>>
        /\ ~peer[id].gossip_queries_feature
        /\ ~Filtered(id)

\* C5: a peer created with gossip_queries starts with cursor UINT64_MAX and
\* window (UINT32_MAX, 0) and is sent no broadcast-log entry until a
\* gossip_timestamp_filter of our chain was processed from it.
C5_NothingBeforeFilter ==
    \A id \in peers :
        (peer[id].gossip_queries_feature /\ ~Filtered(id))
        => /\ peer[id].broadcast_index = UINT64_MAX
           /\ peer[id].gossip_timestamp_min = UINT32_MAX
           /\ peer[id].gossip_timestamp_max = 0
           /\ EmittedEver(id) = {}

\* A gossip_queries peer that sent no filter, with a full log, after a wake
\* that found nothing and armed the timer.
C5_Witness ==
    \E id \in peers :
        /\ peer[id].gossip_queries_feature /\ ~Filtered(id)
        /\ Len(broadcasts) = MaxLog
        /\ peer[id].gossip_timer

\* C6: for every peer gossip_timestamp_min <= gossip_timestamp_max, or the
\* pair is the initial (UINT32_MAX, 0); after an accepted
\* gossip_timestamp_filter the former.
C6_WindowOrdered ==
    \A id \in peers :
        /\ \/ peer[id].gossip_timestamp_min <= peer[id].gossip_timestamp_max
           \/ /\ peer[id].gossip_timestamp_min = UINT32_MAX
              /\ peer[id].gossip_timestamp_max = 0
        /\ Filtered(id) => peer[id].gossip_timestamp_min <= peer[id].gossip_timestamp_max
        /\ peer[id].gossip_timestamp_min \in U32
        /\ peer[id].gossip_timestamp_max \in U32

\* A filter with timestamp_range 0 and first_timestamp > 0 was accepted.
C6_Witness ==
    \E id \in peers :
        /\ hist[id].last_filter = "zero"
        /\ peer[id].gossip_timestamp_min > 0

\* C7: gossip_timestamp_filter(first, UINT32_MAX - first + k) with k >= 1 sets
\* gossip_timestamp_min = first and gossip_timestamp_max = UINT32_MAX.
C7_FilterSaturates ==
    [][\A id \in PeerIds : \A first \in U32, range \in U32 :
          (/\ HandleGossipTimestampFilter(id, TRUE, OurChain, first, range)
           /\ \E k \in 1..(UINT32_MAX + 1) : range = UINT32_MAX - first + k)
          => /\ peer'[id].gossip_timestamp_min = first
             /\ peer'[id].gossip_timestamp_max = UINT32_MAX]_vars

\* A filter whose first + range - 1 exceeds UINT32_MAX was accepted.
C7_Witness ==
    \E id \in peers :
        /\ hist[id].last_filter = "overflow"
        /\ peer[id].gossip_timestamp_min >= 2
        /\ peer[id].gossip_timestamp_max = UINT32_MAX

\* C8, as stated: a peer created without gossip_queries starts with window
\* [0, UINT32_MAX]; with initial_routing_sync every entry that was in the log
\* at its creation is emitted before its timer is first armed; without, no
\* such entry is ever emitted.
C8_LegacyPeerStart ==
    \A id \in peers :
        ~peer[id].gossip_queries_feature
        => LET old == {i \in Entries : i < hist[id].created_at}
           IN /\ ~Filtered(id)
                 => peer[id].gossip_timestamp_min = 0
                    /\ peer[id].gossip_timestamp_max = UINT32_MAX
              /\ IF peer[id].initial_routing_sync_feature
                 THEN peer[id].gossip_timer => old \subseteq EmittedEver(id)
                 ELSE old \cap EmittedEver(id) = {}

\* C8, amended: the same until the peer's first gossip_timestamp_filter of our
\* chain is processed; until then the entries emitted are exactly those from
\* the cursor's start (0, or next_index at creation) up to the cursor.
C8_LegacyPeerStartUntilFilter ==
    \A id \in peers :
        (~peer[id].gossip_queries_feature /\ ~Filtered(id))
        => LET old == {i \in Entries : i < hist[id].created_at}
               start == IF peer[id].initial_routing_sync_feature THEN 0
                        ELSE hist[id].created_at
           IN /\ peer[id].gossip_timestamp_min = 0
              /\ peer[id].gossip_timestamp_max = UINT32_MAX
              /\ peer[id].broadcast_index >= start
              /\ EmittedEver(id) = {i \in Entries : start <= i /\ i < peer[id].broadcast_index}
              /\ IF peer[id].initial_routing_sync_feature
                 THEN peer[id].gossip_timer => old \subseteq EmittedEver(id)
                 ELSE old \cap EmittedEver(id) = {}

\* An initial_routing_sync peer created with two entries in the log, both
\* emitted, the timer armed.
C8_Witness ==
    \E id \in peers :
        /\ ~peer[id].gossip_queries_feature /\ peer[id].initial_routing_sync_feature
        /\ ~Filtered(id)
        /\ hist[id].created_at = 2
        /\ peer[id].gossip_timer
        /\ EmittedEver(id) = {0, 1}

\* C10, as stated: the entries emitted to a peer over its session come in
\* strictly increasing index order.
C10_InLogOrder ==
    [][\A id \in PeerIds : \A i \in Entries :
          EmitsNow(id, i) => \A j \in EmittedEver(id) : j < i]_vars

\* C10, amended: the entries emitted to a peer since its cursor was last set
\* come in strictly increasing index order.
C10_InLogOrderPerCursorReset ==
    [][\A id \in PeerIds : \A i \in Entries :
          EmitsNow(id, i) => \A j \in Emitted(hist[id].epoch) : j < i]_vars

\* After a filter, entry 1 was emitted after entry 0; entry 1 had been emitted
\* before the filter as well.
C10_Witness ==
    \E id \in peers :
        /\ Filtered(id)
        /\ 1 \in hist[id].prev
        /\ hist[id].epoch = <<1, 1>>
        /\ peer[id].gossip_timestamp_max < UINT32_MAX

\* C9: while a query_short_channel_ids is being answered, every dump_gossip
\* queues at least one message of the reply and no broadcast-log entry, with
\* the timer and the cursor left as they are, also when the timer is armed or
\* gossip is suppressed; no broadcast-log entry is emitted in a step that
\* starts with the query in flight.
C9_ReplyPreemptsBroadcast ==
    [][\A id \in PeerIds :
          /\ (InFlight(id) /\ id \in peers /\ DumpGossip(id))
             => /\ Len(hist'[id].reply) > Len(hist[id].reply)
                /\ \A k \in 1..Len(hist'[id].reply) : hist'[id].reply[k].type # "broadcast"
                /\ hist'[id].epoch = hist[id].epoch
                /\ peer'[id].gossip_timer = peer[id].gossip_timer
                /\ peer'[id].broadcast_index = peer[id].broadcast_index
          /\ \A i \in Entries : EmitsNow(id, i) => ~InFlight(id)]_vars

\* Part of a reply was queued, the query is still in flight, the timer is
\* armed, and the log has an entry the peer is due.
C9_Witness ==
    \E id \in peers :
        /\ InFlight(id)
        /\ Len(hist[id].reply) = 3
        /\ peer[id].gossip_timer
        /\ next_broadcast(broadcasts, peer[id].gossip_timestamp_min,
                          peer[id].gossip_timestamp_max, peer[id].broadcast_index).found

\* What the claim expects for a query, written from the claim: per requested
\* SCID of an announced channel, in query order, its channel_announcement and
\* its channel_updates of half 0 then half 1 ...
RECURSIVE ExpectedChannels(_)
ExpectedChannels(q) ==
    IF q = <<>> THEN <<>>
    ELSE LET scid == Head(q)
             ups == [half \in {0, 1} |->
                        IF half \in chanmap[scid].update
                        THEN <<MsgChannelUpdate(scid, half)>> ELSE <<>>]
         IN (IF IsAnnouncedChan(scid)
             THEN <<MsgChannelAnnouncement(scid)>> \o ups[0] \o ups[1]
             ELSE <<>>) \o ExpectedChannels(Tail(q))

\* ... then the node_announcements of the announced endpoints of those
\* channels, each once, in ascending node-id order ...
RECURSIVE Ascending(_)
Ascending(S) ==
    IF S = {} THEN <<>>
    ELSE LET least == CHOOSE x \in S : \A y \in S : x <= y
         IN <<MsgNodeAnnouncement(least)>> \o Ascending(S \ {least})

ExpectedNodes(q) ==
    Ascending({n \in node_announced :
                 \E k \in 1..Len(q) :
                    IsAnnouncedChan(q[k]) /\ \E e \in 1..2 : ChanNodes(q[k])[e] = n})

\* ... then one reply_short_channel_ids_end.
Expected(q) == ExpectedChannels(q) \o ExpectedNodes(q) \o <<MsgReplyShortChannelIdsEnd>>

IsStrictPrefix(a, b) == Len(a) < Len(b) /\ a = SubSeq(b, 1, Len(a))

\* C2, amended: the messages the pump queues to the peer between acceptance of
\* a query_short_channel_ids and the clearing of scid_queries are exactly the
\* expected sequence; while the query is in flight they are a strict prefix
\* of it.
C2_ReplySequence ==
    \A id \in peers :
        hist[id].query # NULL
        => IF InFlight(id)
           THEN IsStrictPrefix(hist[id].reply, Expected(Val(hist[id].query)))
           ELSE hist[id].reply = Expected(Val(hist[id].query))

\* C2, as stated: the same, and no other message is queued to the peer in
\* between.
C2_ReplySequenceAndNothingElse ==
    \A id \in peers :
        hist[id].query # NULL
        => /\ ~hist[id].other
           /\ IF InFlight(id)
              THEN IsStrictPrefix(hist[id].reply, Expected(Val(hist[id].query)))
              ELSE hist[id].reply = Expected(Val(hist[id].query))

\* The reply to the query for channels 1 and 2 is complete: two announcements
\* with two updates each, three node announcements out of four recorded
\* endpoints, the terminator.
C2_Witness ==
    \E id \in peers :
        /\ hist[id].query = Some(<<1, 2>>)
        /\ ~InFlight(id)
        /\ Len(hist[id].reply) = 10
        /\ hist[id].reply[7] = MsgNodeAnnouncement(1)
        /\ hist[id].reply[10] = MsgReplyShortChannelIdsEnd

\* The pump has nothing to do for the peer: no query in flight, the timer
\* armed, no entry in the window at or after the cursor.
Quiescent(id) ==
    /\ id \in peers
    /\ ~InFlight(id)
    /\ peer[id].gossip_timer
    /\ ~next_broadcast(broadcasts, peer[id].gossip_timestamp_min,
                       peer[id].gossip_timestamp_max, peer[id].broadcast_index).found

\* Where the peer's cursor was last set.
Start(id) ==
    IF Filtered(id) THEN 0
    ELSE IF peer[id].gossip_queries_feature THEN UINT64_MAX
    ELSE IF peer[id].initial_routing_sync_feature THEN 0
    ELSE hist[id].created_at

\* How often entry i was emitted to the peer in its session (2: twice or more).
SessionCount(id, i) ==
    IF i \in hist[id].prev THEN Bump(hist[id].epoch[i + 1]) ELSE hist[id].epoch[i + 1]

\* A step of the pump or of a timer, for some peer.
PumpStep == \E id \in PeerIds : DumpGossipNoQuery(id) \/ GossipTimerFire(id)

\* C4, as stated, at the point the pump comes to rest: every entry in the
\* peer's window was emitted once in the session, the others never.
C4_AllOfWindowOnceInSession ==
    \A id \in PeerIds :
        Quiescent(id)
        => \A i \in Entries : SessionCount(id, i) = IF InWindow(id, i) THEN 1 ELSE 0

\* C4, amended, what holds when the pump comes to rest: since the cursor was
\* last set, every entry at or after the place it was set to and in the
\* peer's window was emitted once, the others not.
C4_AllOfWindowOnceSinceCursorSet ==
    \A id \in PeerIds :
        Quiescent(id)
        => \A i \in Entries :
              hist[id].epoch[i + 1] = IF i >= Start(id) /\ InWindow(id, i) THEN 1 ELSE 0

\* C4, amended: the above, and with the pump and the timers running fairly,
\* unless gossip is suppressed or other steps keep occurring, the pump comes
\* to rest for a connected peer again and again.
C4_DrainsWindow ==
    /\ []C4_AllOfWindowOnceSinceCursorSet
    /\ \A id \in PeerIds :
          \/ []<>(id \notin peers \/ suppress_gossip \/ Quiescent(id))
          \/ []<><<~PumpStep>>_vars

\* The pump at rest for a peer that set a window holding one of the two
\* entries of the log, that entry emitted.
C4_Witness ==
    \E id \in peers :
        /\ Quiescent(id)
        /\ Filtered(id)
        /\ Len(broadcasts) = 2
        /\ InWindow(id, 1) /\ ~InWindow(id, 0)
        /\ hist[id].epoch = <<0, 1>>
\* C11: one call of dump_gossip queues at most one message taken from the
\* broadcast log; when it queues one, the cursor was at or before that entry
\* and ends just after it, and when it queues none the cursor stays.
C11_OnePerWake ==
    \A id \in peers :
        LET r == dump_gossip(peer[id])
        IN /\ n_broadcast(r.msgs) <= 1
           /\ \A k \in 1..Len(r.msgs) :
                 r.msgs[k].type = "broadcast"
                 => /\ peer[id].broadcast_index <= r.msgs[k].a
                    /\ r.peer.broadcast_index = r.msgs[k].a + 1
           /\ n_broadcast(r.msgs) = 0
              => r.peer.broadcast_index = peer[id].broadcast_index

\* A wake has queued the first of two entries that were due, and the second
\* is still to come.
C11_Witness ==
    \E id \in peers :
        /\ ~InFlight(id)
        /\ hist[id].epoch = <<1, 0>>
        /\ peer[id].broadcast_index = 1
        /\ InWindow(id, 1)
        /\ ~peer[id].gossip_timer

\* The peer of the scenario: it negotiated gossip_queries and its last
\* filter was (0, UINT32_MAX).
PacedPeer(id) ==
    /\ id \in peers
    /\ peer[id].gossip_queries_feature
    /\ Filtered(id)
    /\ peer[id].gossip_timestamp_min = 0
    /\ peer[id].gossip_timestamp_max = UINT32_MAX - 1

\* Since the filter the peer got the entries before its cursor, once each
\* and in log order, and no other.
PacedInOrder(id) ==
    /\ peer[id].broadcast_index <= Len(broadcasts)
    /\ \A i \in Entries :
          hist[id].epoch[i + 1] = (IF i < peer[id].broadcast_index THEN 1 ELSE 0)

\* C12, as stated: the peer gets the three entries in log order, and between
\* two emissions the paced-out timer fires.
C12_OnePerTick ==
    \A id \in peers : PacedPeer(id) => PacedInOrder(id) /\ sent.burst <= 1

\* C12: the peer gets the three entries in log order, one by each call of
\* dump_gossip made while the timer is not pending, which leaves the timer
\* unarmed; the timer is armed only by a call that finds no entry left, and
\* while it is pending nothing is queued.
C12_OnePerWakeUntilDrained ==
    \A id \in peers :
        PacedPeer(id)
        => /\ PacedInOrder(id)
           /\ LET r == dump_gossip(peer[id])
              IN IF ~peer[id].gossip_timer /\ peer[id].broadcast_index < Len(broadcasts)
                 THEN /\ r.msgs = <<MsgBroadcast(peer[id].broadcast_index)>>
                      /\ ~r.peer.gossip_timer
                 ELSE r.msgs = <<>> /\ r.peer.gossip_timer

\* The three entries went out with no firing of the timer in between.
C12_Witness ==
    \E id \in peers :
        /\ PacedPeer(id)
        /\ hist[id].epoch = <<1, 1, 1>>
        /\ sent.burst = 3

\* The last step handled a well-formed query_channel_range of our chain.
RangeQuery == sent.step.op = "query_channel_range" /\ sent.step.args[1]
                 /\ sent.step.args[2] = OurChain
RangeFirst == sent.step.args[3]
RangeNum == sent.step.args[4]

\* The ids the reply_channel_range messages of the last step carry, in the
\* order queued.
RECURSIVE carried(_)
carried(msgs) ==
    IF msgs = <<>> THEN <<>>
    ELSE (IF Head(msgs).type = "reply_channel_range" THEN Head(msgs).scids ELSE <<>>)
         \o carried(Tail(msgs))

NoDuplicate(list) == \A i, j \in 1..Len(list) : list[i] = list[j] => i = j

\* The ids of every single block fit the size budget.
SingleBlocksFit ==
    \A b \in U32 :
        encode_short_channel_ids_end(
            in_order({s \in SCIDs : chanmap[s].present /\ short_channel_id_blocknum(s) = b}),
            max_scids_encode_bytes, max_encoded_bytes)

C17_OverflowRejected ==
    RangeQuery
    => IF RangeFirst + RangeNum > UINT32_MAX
       THEN sent.to_peer = <<MsgError>>
       ELSE /\ \A k \in 1..Len(sent.to_peer) : sent.to_peer[k].type = "reply_channel_range"
            /\ encode_short_channel_ids_end(<<>>, max_scids_encode_bytes, max_encoded_bytes)
                  /\ SingleBlocksFit
               => Len(sent.to_peer) >= 1

\* A query whose sum is exactly 2^32 was rejected.
C17_Witness ==
    /\ RangeQuery /\ RangeFirst + RangeNum = UINT32_MAX + 1
    /\ sent.to_peer = <<MsgError>>

\* The program's state but for the peers' structs.
daemon_vars ==
    <<peers, peer_list, broadcasts, chanmap, node_announced, suppress_gossip,
      local_disabled, max_scids_encode_bytes, local>>

\* The step is the handling of a well-formed message of type op from the
\* peer, of our chain or of a foreign one.
Handled(id, op, ours) ==
    /\ sent'.step.op = op /\ sent'.step.id = id
    /\ sent'.step.args[1]
    /\ (sent'.step.args[2] = OurChain) = ours

\* The step is the master's request op for the peer.
Requested(id, op) == sent'.step.op = op /\ sent'.step.id = id

\* C15: a peer has one scid_queries list and one query_channel_blocks
\* bitmap. A query_short_channel_ids handled while a query is in flight is
\* answered with an error and leaves the peer's struct as it was; a
\* query_channel_range of the master made while the bitmap exists is answered
\* with a failure to the master, queues nothing to the peer and leaves the
\* peer's struct as it was.
C15_OneQueryAtATime ==
    [][\A id \in PeerIds :
          /\ \/ sent'.step.op # "query_short_channel_ids"
             \/ ~Handled(id, "query_short_channel_ids", TRUE)
             \/ peer[id].scid_queries = NULL /\ peer[id].scid_query_nodes = NULL
             \/ /\ sent'.to_peer = <<MsgError>> /\ sent'.to_control = <<>>
                /\ peer'[id] = peer[id]
          /\ \/ sent'.step.op # "query_channel_range_req"
             \/ ~Requested(id, "query_channel_range_req")
             \/ peer[id].query_channel_blocks = NULL
             \/ /\ sent'.to_control = <<MsgQueryChannelRangeReply(0, 0, FALSE, NULL)>>
                /\ sent'.to_peer = <<>>
                /\ peer'[id] = peer[id]]_vars

\* The master's query_channel_range was refused while the bitmap of the
\* query before it was partly filled, a query of the peer being in flight.
C15_Witness ==
    \E id \in peers :
        /\ sent.step.op = "query_channel_range_req" /\ sent.step.id = id
        /\ sent.to_control = <<MsgQueryChannelRangeReply(0, 0, FALSE, NULL)>>
        /\ peer[id].query_channel_blocks = Some(<<1, 0>>)
        /\ peer[id].query_channel_scids = Some(<<2>>)
        /\ peer[id].scid_queries # NULL

\* The message types that carry a chain hash.
ChainQueries ==
    {"gossip_timestamp_filter", "query_short_channel_ids", "query_channel_range"}
ChainReplies == {"reply_short_channel_ids_end", "reply_channel_range"}

C19_EndsCounted ==
    /\ [](\A id \in PeerIds :
            peer[id].num_scid_queries_outstanding
               = hist[id].scids_sent - hist[id].ends_accepted)
    /\ [][\A id \in PeerIds :
             \/ sent'.step.op # "reply_short_channel_ids_end"
             \/ ~Handled(id, "reply_short_channel_ids_end", TRUE)
             \/ IF peer[id].num_scid_queries_outstanding > 0
                THEN /\ peer'[id].num_scid_queries_outstanding
                           = peer[id].num_scid_queries_outstanding - 1
                     /\ sent'.to_peer = <<>>
                     /\ \E c \in {0, 1} : sent'.to_control = <<MsgScidsReply(TRUE, c)>>
                ELSE /\ peer'[id].num_scid_queries_outstanding = 0
                     /\ sent'.to_peer = <<MsgError>>
                     /\ sent'.to_control = <<>>]_vars

\* Two queries were sent and two terminators accepted, and a third
\* terminator was answered with an error.
C19_Witness ==
    \E id \in peers :
        /\ sent.step.op = "reply_short_channel_ids_end" /\ sent.step.id = id
        /\ sent.step.args[1] /\ sent.step.args[2] = OurChain
        /\ sent.to_peer = <<MsgError>>
        /\ hist[id].scids_sent = 2 /\ hist[id].ends_accepted = 2
        /\ peer[id].num_scid_queries_outstanding = 0

\* Every block of the bitmap is 1 once the blocks of the window (first_blocknum,
\* number_of_blocks) are marked.
Covers(pr, first_blocknum, number_of_blocks) ==
    LET blocks == Val(pr.query_channel_blocks)
        n == first_blocknum - pr.first_channel_range
    IN \A k \in 1..Len(blocks) : blocks[k] = 1 \/ (n + 1 <= k /\ k <= n + number_of_blocks)

\* C20: a bitmap that exists has a block at 0 or no block at all. The step
\* that handles a reply_channel_range sends to the master if and only if it
\* frees the bitmap; it then sends one reply, which carries the ids
\* accumulated so far followed by those of this message, the blocks of this
\* message being the last at 0, and it frees the id list too, so that the
\* master's next query_channel_range is accepted. A reply that is accepted
\* and leaves a block at 0 appends its ids and sends nothing.
C20_AggregatedReplyOnLastBlock ==
    /\ [](\A id \in PeerIds :
            /\ peer[id].query_channel_blocks # NULL
               => \/ Val(peer[id].query_channel_blocks) = <<>>
                  \/ \E k \in 1..Len(Val(peer[id].query_channel_blocks)) :
                        Val(peer[id].query_channel_blocks)[k] = 0
            /\ find_peer(peer_list, id) /\ peer[id].gossip_queries_feature
                  /\ peer[id].query_channel_blocks = NULL
               => query_channel_range(peer[id], TRUE, 1, 2).peer.query_channel_blocks
                     = Some(<<0, 0>>))
    /\ [][\A id \in PeerIds :
             \/ sent'.step.op # "reply_channel_range"
             \/ sent'.step.id # id
             \/ IF peer[id].query_channel_blocks # NULL
                   /\ peer'[id].query_channel_blocks = NULL
                THEN /\ Len(sent'.to_control) = 1
                     /\ sent'.to_control[1].type = "gossip_query_channel_range_reply"
                     /\ sent'.to_control[1].scids
                           = Val(peer[id].query_channel_scids) \o Val(sent'.step.args[3])
                     /\ Covers(peer[id], sent'.to_control[1].first_blocknum,
                               sent'.to_control[1].number_of_blocks)
                     /\ peer'[id].query_channel_scids = NULL
                ELSE /\ sent'.to_control = <<>>
                     /\ \/ peer'[id] = peer[id]
                        \/ /\ sent'.to_peer = <<>>
                           /\ peer'[id].query_channel_scids
                                 = Some(Val(peer[id].query_channel_scids)
                                           \o Val(sent'.step.args[3]))]_vars

\* The query for blocks 1 and 2 was answered for block 2 first and for
\* block 1 next, and the master got the ids in the order they came.
C20_Witness ==
    \E id \in peers :
        /\ sent.step.op = "reply_channel_range" /\ sent.step.id = id
        /\ sent.to_control = <<MsgQueryChannelRangeReply(1, 1, 1, <<2, 1>>)>>
        /\ peer[id].query_channel_blocks = NULL
        /\ peer[id].query_channel_scids = NULL

\* ---- peers that go
\* The channels of the graph between our node and the node of this id.
SharedChans(id) ==
    {s \in SCIDs : chanmap[s].present
                   /\ {ChanNodes(s)[1], ChanNodes(s)[2]} = {OurId, id}}

\* The channel flags after the peer of this id went: set on the channels we
\* share with its node, as they were on the others.
SharedDisabled(id) ==
    \A s \in SCIDs : IF s \in SharedChans(id) THEN local_disabled'[s]
                     ELSE local_disabled'[s] = local_disabled[s]

\* How many peers of this id the list holds.
Sessions(list, id) == Cardinality({i \in 1..Len(list) : list[i] = id})

\* A successful connectd_new_peer for this id has run.
Connected(id) ==
    /\ sent'.step.op = "connectd_new_peer"
    /\ sent'.step.id = id
    /\ sent'.to_control = <<MsgNewPeerReply(TRUE)>>

\* C13: when a peer is destroyed, because its connection closed or it was
\* freed, or because a new session of the same id replaced it, every channel
\* of the graph between our node and the peer's node has local_disabled set,
\* the other channels keep their flag, and the destroyed peer is out of the
\* peer list: no peer of the id is left after a close, only the new session
\* after a replacement.
C13_DestroyDisablesShared ==
    [][\A id \in PeerIds :
          /\ (sent'.step.op = "destroy_peer" /\ sent'.step.id = id)
                => /\ SharedDisabled(id)
                   /\ Sessions(peer_list', id) = 0
          /\ (Connected(id) /\ find_peer(peer_list, id))
                => /\ SharedDisabled(id)
                   /\ Sessions(peer_list', id) = 1
                   /\ peer_list'[Len(peer_list')] = id]_vars

\* A peer was destroyed while the channel we share with its node was
\* enabled: the channel is disabled now, and the channel between its node
\* and node 3 is not.
C13_Witness ==
    /\ sent.step.op = "destroy_peer"
    /\ 2 \in node_chans(chanmap, 2) /\ 1 \in node_chans(chanmap, 2)
    /\ ~sent.step.args[1][2]
    /\ local_disabled[2]
    /\ ~local_disabled[1]
    /\ ~find_peer(peer_list, 2)

\* ---- peers that come
\* The fields connectd_new_peer sets whatever the features are.
Fresh(pr) ==
    /\ pr.scid_queries = NULL /\ pr.scid_query_idx = 0
    /\ pr.scid_query_nodes = NULL /\ pr.scid_query_nodes_idx = 0
    /\ pr.num_scid_queries_outstanding = 0
    /\ pr.query_channel_blocks = NULL
    /\ pr.num_pings_outstanding = 0
    /\ ~pr.gossip_timer

\* C14: the peer list never holds two peers of one id; a successful new_peer
\* leaves exactly one peer of its id, the new one, at the tail of the list,
\* and that peer has no query in flight in either direction, no SCID query
\* and no ping outstanding and no timer, whatever the peer it replaced had.
C14_OnePeerPerId ==
    /\ [](\A id \in PeerIds : Sessions(peer_list, id) <= 1)
    /\ [][\A id \in PeerIds :
             Connected(id) => /\ Sessions(peer_list', id) = 1
                              /\ peer_list'[Len(peer_list')] = id
                              /\ Fresh(peer'[id])]_vars

\* A new session has replaced a peer that was answering a
\* query_short_channel_ids, had been sent a query_short_channel_ids, a
\* query_channel_range and a ping, and had its timer armed.
C14_Witness ==
    /\ sent.step.op = "connectd_new_peer"
    /\ sent.to_control = <<MsgNewPeerReply(TRUE)>>
    /\ sent.step.args[4] # NULL
    /\ LET old == Val(sent.step.args[4])
       IN /\ old.num_scid_queries_outstanding > 0
          /\ old.num_pings_outstanding > 0
          /\ old.query_channel_blocks # NULL
          /\ old.gossip_timer
          /\ old.scid_queries # NULL
    /\ Sessions(peer_list, 2) = 1
    /\ Fresh(peer[2])

\* ---- replies to our query_channel_range that are refused
\* The blocks first_blocknum .. first_blocknum + number_of_blocks - 1 of a
\* reply_channel_range, as numbers that do not wrap.
ReplyWindow(step) == step.args[4]..(step.args[4] + step.args[5] - 1)

\* The blocks the query of the peer asked for.
QueryWindow(pr) ==
    pr.first_channel_range
       ..(pr.first_channel_range + Len(Val(pr.query_channel_blocks)) - 1)

\* The blocks of the query a reply has been accepted for.
Received(pr) ==
    {b \in QueryWindow(pr) : Val(pr.query_channel_blocks)[b - pr.first_channel_range + 1] = 1}

\* C21: a reply_channel_range that finds no query outstanding, whose blocks
\* are not all blocks of the query, or one of whose blocks a reply was
\* already accepted for, is answered with an error to the peer; the peer's
\* bitmap and id list stay as they were and nothing is sent to the master.
C21_BadReplyRefused ==
    [][\A id \in PeerIds :
          \/ sent'.step.op # "reply_channel_range"
          \/ sent'.step.id # id
          \/ ~(\/ peer[id].query_channel_blocks = NULL
               \/ ~(ReplyWindow(sent'.step) \subseteq QueryWindow(peer[id]))
               \/ ReplyWindow(sent'.step) \cap Received(peer[id]) # {})
          \/ /\ sent'.to_peer = <<MsgError>>
             /\ sent'.to_control = <<>>
             /\ peer'[id] = peer[id]]_vars

\* The query for blocks 1 and 2 has a reply for block 2; a well-formed reply
\* for blocks 1 and 2 has been refused and the bitmap still has block 1 at 0.
C21_Witness ==
    \E id \in peers :
        /\ sent.step.op = "reply_channel_range" /\ sent.step.id = id
        /\ sent.step.args[1] /\ sent.step.args[2] = OurChain /\ sent.step.args[3] # NULL
        /\ sent.step.args[4] = 1 /\ sent.step.args[5] = 2
        /\ peer[id].first_channel_range = 1
        /\ peer[id].query_channel_blocks = Some(<<0, 1>>)
        /\ sent.to_peer = <<MsgError>>

\* ---- what the master is sent
\* The replies to the master's ping, query_scids and query_channel_range.
CommandReplies ==
    {"gossip_ping_reply", "gossip_scids_reply", "gossip_query_channel_range_reply"}

\* C22: whatever pongs, reply_short_channel_ids_end and reply_channel_range
\* the peers send, the master has been sent no more replies to its pings than
\* it sent pings, and the same for query_scids and for query_channel_range;
\* a step sends it nothing but such replies (the reply to connectd's new_peer
\* goes to connectd).
C22_RepliesOnlyToRequests ==
    /\ sent.owed.ping >= 0
    /\ sent.owed.query_scids >= 0
    /\ sent.owed.query_channel_range >= 0
    /\ \A k \in 1..Len(sent.to_control) :
          \/ sent.to_control[k].type \in CommandReplies
          \/ sent.step.op = "connectd_new_peer"
                /\ sent.to_control[k].type = "gossip_new_peer_reply"

\* A pong has been answered to the master, after which every ping, every
\* query_scids and every query_channel_range received so far has its reply.
C22_Witness ==
    /\ sent.step.op = "pong"
    /\ sent.to_control = <<MsgPingReply(TRUE, 1)>>
    /\ sent.owed = [ping |-> 0, query_scids |-> 0, query_channel_range |-> 0]
    /\ \E id \in peers : hist[id].ends_accepted > 0

\* ---- the master's ping
\* C23: a ping for a peer that is not connected is answered to the master
\* with a failure and changes no peer. A ping for a connected peer is queued
\* to it; when it asks for 65532 bytes or more the master is answered in the
\* same step and num_pings_outstanding stays, otherwise the master is not
\* answered and num_pings_outstanding grows by one. No step but ping_req and
\* the handling of a pong sends a ping reply to the master.
C23_PingReplyNowOrOnPong ==
    [][/\ \A id \in PeerIds :
            \/ sent'.step.op # "ping_req"
            \/ sent'.step.id # id
            \/ IF ~find_peer(peer_list, id)
               THEN /\ sent'.to_control = <<MsgPingReply(FALSE, 0)>>
                    /\ sent'.to_peer = <<>>
                    /\ peer' = peer
               ELSE /\ Len(sent'.to_peer) = 1
                    /\ sent'.to_peer[1].type = "ping"
                    /\ IF sent'.to_peer[1].num_pong_bytes >= 65532
                       THEN /\ sent'.to_control = <<MsgPingReply(TRUE, 0)>>
                            /\ peer' = peer
                       ELSE /\ sent'.to_control = <<>>
                            /\ peer' = [peer EXCEPT ![id].num_pings_outstanding = @ + 1]
       /\ (\E k \in 1..Len(sent'.to_control) : sent'.to_control[k].type = "gossip_ping_reply")
             => sent'.step.op \in {"ping_req", "pong"}]_vars

\* A ping asking for 65531 bytes was queued to a connected peer: the master
\* has no reply and one ping is outstanding.
C23_Witness ==
    \E id \in peers :
        /\ sent.step.op = "ping_req" /\ sent.step.id = id
        /\ sent.to_peer = <<MsgPing(65531)>>
        /\ sent.to_control = <<>>
        /\ peer[id].num_pings_outstanding = 1
        /\ sent.owed.ping = 1

\* ---- the channel_updates we generate
\* The channel_updates the last step generated.
Updates == {k \in 1..Len(sent.made) : sent.made[k].kind = "channel_update"}

\* C24: every channel_update generated for a half that already has one
\* carries a timestamp above that half's last_timestamp.
C24_UpdateTimestampsGrow ==
    \A k \in Updates :
       sent.made[k].prev # NULL => sent.made[k].timestamp > Val(sent.made[k].prev)

\* The node_announcements the step generated.
Announcements == {k \in 1..Len(sent.made) : sent.made[k].kind = "node_announcement"}

MaybeCalls ==
    {k \in 1..Len(sent.made) : sent.made[k].kind = "maybe_send_own_node_announce"}
\* The announcement has the addresses, alias, colour and features asked for.
SameAnnouncement(ann, config) ==
    /\ Len(ann.addresses) = Len(config.addresses)
    /\ \A i \in 1..Len(ann.addresses) : ann.addresses[i] = config.addresses[i]
    /\ ann.alias = config.alias
    /\ ann.rgb = config.rgb
    /\ ann.globalfeatures = config.globalfeatures

\* C26: maybe_send_own_node_announce generates nothing and leaves
\* local_channel_announced as it is when no local channel has been announced,
\* or when our node's announcement has a timestamp and the addresses, alias,
\* rgb and globalfeatures of the configuration; otherwise it generates one
\* node_announcement and clears local_channel_announced.
C26_AnnounceUnlessRedundant ==
    \A k \in MaybeCalls :
       LET ev == sent.made[k]
           quiet == \/ ~ev.announced
                    \/ /\ ev.node.last_timestamp # -1
                       /\ SameAnnouncement(ev.node.ann, ev.config)
           generated == {j \in Announcements : j > k}
       IN IF quiet
          THEN generated = {} /\ local.local_channel_announced = ev.announced
          ELSE generated = {k + 1} /\ ~local.local_channel_announced

\* A local channel has been announced and our node's announcement differs
\* from the configuration in one address only: a node_announcement is
\* generated.
C26_Witness ==
    \E k \in MaybeCalls :
       LET ev == sent.made[k]
       IN /\ ev.announced
          /\ ev.node.last_timestamp # -1
          /\ ev.node.ann = [ev.config EXCEPT !.addresses = <<2>>]
          /\ sent.step.op = "get_txout_reply"
          /\ k + 1 \in Announcements

\* The step handled, without error, a channel_update that arrived on a peer
\* stream.
PeerUpdateTaken(step) ==
    /\ step.op = "gossip_msg"
    /\ step.args[1] = "channel_update"
    /\ ~step.args[3]

\* C27, as stated: maybe_send_own_node_announce runs in the same step after
\* every accepted channel_update of one of our own channels, generated by
\* update_local_channel or arrived on a peer stream, and after
\* handle_pending_cannouncement on a funding-output reply.
C27_AnnounceAfterEveryOwnUpdate ==
    /\ \A k \in Updates :
          sent.made[k].taken => \E j \in MaybeCalls : j > k
    /\ PeerUpdateTaken(sent.step) /\ local_direction(sent.step.args[2]).found
          => MaybeCalls # {}
    /\ sent.step.op = "get_txout_reply" => MaybeCalls # {}

\* What a step does about our node_announcement.
AnnounceStep ==
    LET step == sent'.step
        made == sent'.made
        calls == {k \in 1..Len(made) : made[k].kind = "maybe_send_own_node_announce"}
        updates == {k \in 1..Len(made) : made[k].kind = "channel_update"}
    IN /\ calls # {} <=> (step.op = "get_txout_reply" \/ PeerUpdateTaken(step))
       /\ updates # {} => calls = {}
       /\ step.op = "get_txout_reply" =>
             \E k \in calls :
                made[k].announced =
                   (\/ local.local_channel_announced
                    \/ /\ step.args[1] \in local.pending
                       /\ step.args[2]
                       /\ local_direction(step.args[1]).found)

\* C27, amended: maybe_send_own_node_announce runs at the end of gossip_init,
\* in the step of every channel_update that arrived on a peer stream and was
\* handled without error, and on a funding-output reply after
\* handle_pending_cannouncement, whose flag it finds; it runs in no other
\* step, and in none where update_local_channel generated a channel_update
\* (LOCAL_CHANNEL_UPDATE, keep-alive, GET_UPDATE).
C27_AnnounceAfterPeerUpdateOrTxout ==
    /\ sent.step.op = "gossip_init" => MaybeCalls # {}
    /\ [][AnnounceStep]_vars

\* A funding-output reply makes a channel of ours public, and
\* maybe_send_own_node_announce, run after it, finds the flag set.
C27_Witness ==
    /\ sent.step.op = "get_txout_reply"
    /\ sent.step.args[2]
    /\ local_direction(sent.step.args[1]).found
    /\ is_chan_public(chanmap, sent.step.args[1])
    /\ \E k \in MaybeCalls : sent.made[k].announced /\ k = 1

\* What a LOCAL_CHANNEL_UPDATE step does.
LocalUpdateStep ==
    LET step == sent'.step
        scid == step.args[2]
        disable == step.args[3]
        params == step.args[4]
        hc == local.half[scid]
        defined == is_halfchan_defined(chanmap, scid)
        wanted == \/ ~defined
                  \/ \E i \in 1..5 : hc.params[i] # params[i]
                  \/ defined /\ hc.disabled /\ ~disable
                  \/ ~chanmap[scid].announced
        regenerated == {k \in 1..Len(sent'.made) : sent'.made[k].kind = "channel_update"}
    IN step.op = "local_channel_update" /\ step.args[1] =>
          IF chanmap[scid].present /\ local_direction(scid).found
          THEN /\ regenerated # {} <=> wanted
               /\ \A k \in regenerated :
                     /\ regenerated = {k}
                     /\ sent'.made[k].scid = scid
                     /\ sent'.made[k].disabled = disable
                     /\ sent'.made[k].params = params
               /\ local_disabled'[scid] = disable
          ELSE /\ sent'.made = <<>>
               /\ sent'.queued = <<>>
               /\ UNCHANGED <<chanmap, broadcasts, node_announced, local, local_disabled,
                              peers, peer, peer_list>>

\* C28: on LOCAL_CHANNEL_UPDATE for a known channel of ours a channel_update
\* is regenerated if and only if the half-channel is undefined, or a routing
\* parameter differs from its current value, or the graph flag is disabled
\* and the request enables, or the channel is not public, and local_disabled
\* is the requested flag afterwards; for an unknown or non-local channel
\* nothing is regenerated and no state changes.
C28_RegenerateOnLocalUpdate == [][LocalUpdateStep]_vars

\* A LOCAL_CHANNEL_UPDATE for a public channel of ours that has an update:
\* one is regenerated with the parameters asked for, the graph's disabled
\* flag being as requested before.
C28_Witness ==
    /\ sent.step.op = "local_channel_update"
    /\ sent.step.args[1]
    /\ is_chan_public(chanmap, sent.step.args[2])
    /\ \E k \in Updates :
          /\ sent.made[k].prev # NULL
          /\ sent.made[k].taken
          /\ sent.made[k].params = [BaseParams EXCEPT ![5] = 1]
          /\ sent.made[k].disabled

\* The gossip_get_update_reply messages among those sent to the peer.
UpdateReplies(msgs) == SelectSeq(msgs, LAMBDA m : m.type = "gossip_get_update_reply")

\* What a GET_UPDATE step does.
GetUpdateStep ==
    LET step == sent'.step
        scid == step.args[2]
        regenerated == {k \in 1..Len(sent'.made) : sent'.made[k].kind = "channel_update"}
        replies == UpdateReplies(sent'.to_peer)
    IN step.op = "get_update" /\ step.args[1] =>
          /\ Len(replies) = 1
          /\ IF chanmap[scid].present /\ local_direction(scid).found
             THEN is_halfchan_defined(chanmap, scid) =>
                     /\ regenerated # {} <=>
                           local_disabled[scid] # local.half[scid].disabled
                     /\ \A k \in regenerated :
                           /\ regenerated = {k}
                           /\ sent'.made[k].scid = scid
                           /\ sent'.made[k].disabled = local_disabled[scid]
                     /\ replies[1].update # NULL
                     /\ Val(replies[1].update).disabled = local_disabled[scid]
             ELSE /\ replies[1].update = NULL
                  /\ regenerated = {}

\* C29: on GET_UPDATE for a channel of ours whose half has an update, a
\* channel_update with disabled = local_disabled is generated before the
\* reply exactly when local_disabled differs from the graph's disabled flag,
\* and the update in the reply has its disabled bit equal to local_disabled;
\* every well-formed GET_UPDATE gets exactly one reply, empty for an unknown
\* or non-local channel.
C29_ReplyUpToDate == [][GetUpdateStep]_vars

\* The places in the step's queue where the channel_update of this channel
\* is queued to the peer at its other end.
ToldPeer(scid) ==
    {q \in 1..Len(sent.queued) :
        /\ sent.queued[q].id = other_node(OurId, scid)
        /\ sent.queued[q].msg.type = "channel_update"
        /\ sent.queued[q].msg.a = scid}

KeepaliveDue(scid) ==
    /\ scid \in node_chans(chanmap, OurId)
    /\ is_halfchan_defined(chanmap, scid)
    /\ ~local.half[scid].disabled
    /\ local.half[scid].last_timestamp <= local.now - PruneTimeout \div 2
\* What a run of the refresh sweep does.
SweepStep ==
    sent'.step.op = "gossip_refresh_network" =>
       \A scid \in SCIDs :
          LET regenerated == {k \in 1..Len(sent'.made) :
                                /\ sent'.made[k].kind = "channel_update"
                                /\ sent'.made[k].scid = scid}
          IN IF KeepaliveDue(scid)
             THEN \E k \in regenerated :
                     /\ regenerated = {k}
                     /\ sent'.made[k].params = local.half[scid].params
                     /\ sent'.made[k].caller = "gossip_send_keepalive_update"
             ELSE regenerated = {}

\* C31: each run of the refresh sweep regenerates a channel_update for
\* exactly those of our halves that are defined, enabled in the graph and
\* have last_timestamp <= now - prune_timeout/2, with the parameters the half
\* has, and none for any other; exactly one refresh timer is pending at all
\* times after init.
C31_SweepRegeneratesDue ==
    /\ local.refresh_timers = 1
    /\ [][SweepStep /\ local'.refresh_timers = 1]_vars

\* A run of the sweep with two channels of ours regenerates the update of
\* one of them and not of the other.
C31_Witness ==
    /\ sent.step.op = "gossip_refresh_network"
    /\ node_chans(chanmap, OurId) = {2, 3}
    /\ Cardinality(Updates) = 1
    /\ local.refresh_timers = 1

\* The keep-alives of a run of the sweep.
KeepaliveStep ==
    sent'.step.op = "gossip_refresh_network" =>
       /\ \A k \in 1..Len(sent'.made) :
             sent'.made[k].kind = "channel_update" =>
                LET scid == sent'.made[k].scid
                IN /\ sent'.made[k].disabled = local_disabled[scid]
                   /\ ~local.half[scid].disabled
                   /\ sent'.made[k].taken
                   /\ local'.half[scid].disabled = local_disabled'[scid]
                   /\ local_disabled[scid] => local'.half[scid].disabled
       /\ \A scid \in SCIDs :
             local.half[scid].disabled =>
                \A k \in 1..Len(sent'.made) :
                   sent'.made[k].kind = "channel_update" => sent'.made[k].scid # scid

\* C38: a keep-alive channel_update carries disabled = chan->local_disabled;
\* for a half that is enabled in the graph while its channel is locally
\* disabled the sweep publishes a disabled update, after which the flag of
\* the graph is local_disabled, and a half that is disabled in the graph
\* gets no keep-alive.
C38_KeepaliveCarriesLocalDisabled == [][KeepaliveStep]_vars

\* The sweep has published a disabled update for a half that was enabled in
\* the graph while its channel was locally disabled.
C38_Witness ==
    /\ sent.step.op = "gossip_refresh_network"
    /\ \E k \in Updates :
          /\ sent.made[k].disabled
          /\ sent.made[k].taken
          /\ local_disabled[sent.made[k].scid]
          /\ local.half[sent.made[k].scid].disabled

\* What a step does to the graph, the store and the flags of our channels.
CloseStep ==
    LET step == sent'.step
        scid == step.args[1]
    IN /\ step.op = "outpoint_spent" =>
             IF chanmap[scid].present
             THEN /\ chanmap' = [chanmap EXCEPT ![scid] = NoChan]
                  /\ local'.tombstones = Append(local.tombstones, scid)
             ELSE UNCHANGED <<chanmap, node_announced, broadcasts, local, local_disabled>>
       /\ step.op = "local_channel_close" =>
             IF chanmap[scid].present
             THEN /\ local_disabled' = [local_disabled EXCEPT ![scid] = TRUE]
                  /\ UNCHANGED <<chanmap, node_announced, broadcasts, local>>
             ELSE UNCHANGED <<chanmap, node_announced, broadcasts, local, local_disabled>>
       /\ \A s \in node_chans(chanmap, OurId) \cap node_chans(chanmap', OurId) :
             local_disabled[s] /\ ~local_disabled'[s] =>
                /\ step.op = "local_channel_update"
                /\ step.args[2] = s
                /\ ~step.args[3]

Finalised == sent.step.op = "encode_short_channel_ids_end"
EncLen == sent.step.args[1]
EncZLen == sent.step.args[2]
EncZOk == sent.step.args[3]
EncCap == sent.step.args[4]
EncMaxBytes == sent.step.args[5]
Encoding == sent.made[1]

\* C33, as stated: the ZLIB tag is kept if and only if the compressed body
\* is strictly smaller than the raw ids; otherwise the tag is UNCOMPRESSED
\* and the body is the raw ids; finalise fails exactly when the encoded size
\* exceeds the caller's maximum.
C33_ZlibIffStrictlySmaller ==
    Finalised =>
       /\ Encoding.tag = "SHORTIDS_ZLIB" <=> EncZOk /\ EncZLen < EncLen
       /\ Encoding.tag = "SHORTIDS_UNCOMPRESSED" => Encoding.body = EncLen
       /\ Encoding.ok <=> 1 + Encoding.body <= EncMaxBytes

\* C33, amended: the ZLIB tag is kept, with the compressed body, if and only
\* if compression succeeds into a buffer of the size of the raw ids, that is
\* when the compressed body is not larger than the raw one (equal included);
\* otherwise the tag is UNCOMPRESSED and the body is the raw ids; finalise
\* fails exactly when the encoded size exceeds the caller's maximum or, in a
\* developer build, max_scids_encode_bytes.
C33_ZlibIffNotLarger ==
    Finalised =>
       /\ Encoding.tag = "SHORTIDS_ZLIB" <=> EncZOk /\ EncZLen <= EncLen
       /\ Encoding.tag = "SHORTIDS_ZLIB" => Encoding.body = EncZLen
       /\ Encoding.tag # "SHORTIDS_ZLIB" =>
             Encoding.tag = "SHORTIDS_UNCOMPRESSED" /\ Encoding.body = EncLen
       /\ Encoding.ok <=>
             1 + Encoding.body <= EncMaxBytes /\ 1 + Encoding.body <= EncCap

\* Two ids whose compressed form is as long as they are: the tag stays ZLIB
\* and the array fits.
C33_Witness ==
    /\ Finalised
    /\ EncLen = 16 /\ EncZLen = 16 /\ EncZOk
    /\ Encoding.tag = "SHORTIDS_ZLIB"
    /\ Encoding.ok

\* A step taken with the suppress-gossip toggle set. A session keeps its
\* cursor or has it reset by a filter; connectd_new_peer starts a new one.
SuppressedStep ==
    suppress_gossip =>
       /\ suppress_gossip'
       /\ n_broadcast(sent'.to_peer) = 0
       /\ \A id \in PeerIds :
             /\ \A i \in Entries : ~EmitsNow(id, i)
             /\ id \in peers /\ id \in peers' /\ sent'.step.op # "connectd_new_peer" =>
                   peer'[id].broadcast_index <= peer[id].broadcast_index
             /\ sent'.step = Step("dump_gossip", id, <<>>) =>
                   /\ peer'[id].broadcast_index = peer[id].broadcast_index
                   /\ sent'.to_peer = create_next_scid_reply(peer[id]).msgs
                   /\ InFlight(id) => sent'.to_peer # <<>>
                   /\ InFlight(id) /\ ~InFlight(id)' =>
                         sent'.to_peer[Len(sent'.to_peer)] = MsgReplyShortChannelIdsEnd

\* C34: once the suppress-gossip toggle is set it stays set, no step emits
\* a broadcast-log message to a peer and no session's cursor advances, while a
\* wake of a peer with an SCID query to answer still emits the next part of
\* the reply, the terminator included.
C34_SuppressStopsBroadcastOnly == [][SuppressedStep]_vars

\* With the toggle set, a wake of a peer whose window holds entries it was
\* never sent ends its SCID query with the terminator.
C34_Witness ==
    /\ suppress_gossip
    /\ sent.step.op = "dump_gossip"
    /\ sent.to_peer # <<>>
    /\ sent.to_peer[Len(sent.to_peer)] = MsgReplyShortChannelIdsEnd
    /\ \E i \in Entries :
          /\ InWindow(sent.step.id, i)
          /\ i \notin EmittedEver(sent.step.id)

\* The reply_channel_range messages the last step queued, in order.
RangeReplies == SelectSeq(sent.to_peer, LAMBDA m : m.type = "reply_channel_range")
\* The ids of one block fit one reply.
BlockFits(b) ==
    encode_short_channel_ids_end(
        in_order({s \in SCIDs : chanmap[s].present /\ short_channel_id_blocknum(s) = b}),
        max_scids_encode_bytes, max_encoded_bytes)

\* C35: the replies to an accepted query_channel_range(first, num) carry
\* block windows inside [first, first + num), each ending where or before
\* the next one queued begins (so they are disjoint and in ascending
\* order); each block of [first, first + num) lies in one of the windows
\* unless its own ids do not fit one reply, and a block in a window fits or
\* shares it; there are at most num replies (one for num = 0), the recursion
\* having ended.
C35_WindowsPartitionTheRange ==
    RangeQuery /\ RangeFirst + RangeNum <= UINT32_MAX =>
       LET R == RangeReplies
       IN /\ sent.to_peer = R
          /\ \A k \in 1..Len(R) :
                /\ RangeFirst <= R[k].first_blocknum
                /\ R[k].first_blocknum + R[k].number_of_blocks <= RangeFirst + RangeNum
                /\ k < Len(R) =>
                      R[k].first_blocknum + R[k].number_of_blocks <= R[k + 1].first_blocknum
          /\ \A b \in RangeFirst..(RangeFirst + RangeNum - 1) :
                \/ \E k \in 1..Len(R) :
                      /\ R[k].first_blocknum <= b
                      /\ b < R[k].first_blocknum + R[k].number_of_blocks
                \/ ~BlockFits(b)
          /\ \A k \in 1..Len(R) :
                R[k].number_of_blocks = 1 => BlockFits(R[k].first_blocknum)
          /\ Len(R) <= (IF RangeNum = 0 THEN 1 ELSE RangeNum)

\* A query for three blocks is split twice: the replies are for the first
\* block and for the third, the ids of the second not fitting one reply.
C35_Witness ==
    /\ RangeQuery /\ RangeFirst = 0 /\ RangeNum = 3
    /\ Len(RangeReplies) = 2
    /\ RangeReplies[1].first_blocknum = 0 /\ RangeReplies[1].number_of_blocks = 1
    /\ RangeReplies[2].first_blocknum = 2 /\ RangeReplies[2].number_of_blocks = 1
    /\ ~BlockFits(1)

\* The step is a wake of the peer that queues reply_short_channel_ids_end.
QueuesEnd(id) ==
    /\ sent'.step = Step("dump_gossip", id, <<>>)
    /\ \E k \in 1..Len(sent'.to_peer) : sent'.to_peer[k] = MsgReplyShortChannelIdsEnd

\* A step seen from the SCID reply: the terminator is queued with both
\* cursors at the end of their arrays, as the last message of a wake that
\* queues no channel_announcement, and the state is cleared with it.
EndStep ==
    \A id \in PeerIds :
       QueuesEnd(id) =>
          LET r == create_next_scid_reply(peer[id])
          IN /\ peer[id].scid_queries # NULL
             /\ r.tested.scids = Len(Val(peer[id].scid_queries))
             /\ r.tested.scid_query_idx = r.tested.scids
             /\ r.tested.scid_query_nodes_idx = r.tested.nodes
             /\ \A k \in (peer[id].scid_query_idx + 1)..r.tested.scids :
                   ~IsAnnouncedChan(Val(peer[id].scid_queries)[k])
             /\ n_type(sent'.to_peer, "channel_announcement") = 0
             /\ sent'.to_peer[Len(sent'.to_peer)] = MsgReplyShortChannelIdsEnd
             /\ n_type(sent'.to_peer, "reply_short_channel_ids_end") = 1
             /\ peer'[id].scid_queries = NULL /\ peer'[id].scid_query_idx = 0
             /\ peer'[id].scid_query_nodes = NULL /\ peer'[id].scid_query_nodes_idx = 0

\* C36: reply_short_channel_ids_end is queued only by a wake in which
\* scid_query_idx has reached the number of requested ids and
\* scid_query_nodes_idx the number of recorded node ids, so no requested id
\* is left to look up; the wake clears the query and resets both cursors to
\* 0. This holds for empty queries, for queries that begin with unknown ids
\* and for queries none of whose channels is announced.
C36_EndOnlyAfterEveryScid == [][EndStep]_vars

\* The query <<3, 2>> in a graph where channel 3 is unknown and channel 2
\* is not announced: the first wake queues the terminator alone.
C36_Witness ==
    /\ sent.step.op = "dump_gossip"
    /\ sent.to_peer = <<MsgReplyShortChannelIdsEnd>>
    /\ hist[sent.step.id].query = Some(<<3, 2>>)
    /\ chanmap[2].present /\ ~chanmap[2].announced
    /\ peer[sent.step.id].scid_queries = NULL

\* A wake of a peer with an SCID query accepted and not yet completed.
ReplyWake(id) ==
    /\ sent'.step = Step("dump_gossip", id, <<>>)
    /\ peer[id].scid_queries # NULL

\* Such a wake queues a part of the reply: messages of channels and nodes
\* that are in the graph as it is now, or the terminator.
ReplyWakeStep ==
    \A id \in PeerIds :
       ReplyWake(id) =>
          /\ sent'.to_peer # <<>>
          /\ hist'[id].wakes = hist[id].wakes + 1
          /\ \A k \in 1..Len(sent'.to_peer) :
                LET m == sent'.to_peer[k]
                IN \/ m.type = "channel_announcement" /\ IsAnnouncedChan(m.a)
                   \/ m.type = "channel_update" /\ IsAnnouncedChan(m.a)
                                                /\ m.b \in chanmap[m.a].update
                   \/ m.type = "node_announcement" /\ m.a \in node_announced
                   \/ m = MsgReplyShortChannelIdsEnd /\ peer'[id].scid_queries = NULL

\* C37: an accepted query_short_channel_ids of n ids is completed, its
\* state cleared with the terminator, by the time the pump has woken for
\* the peer 3n + 1 times, whatever channels and nodes leave or join the
\* graph between the wakes; each of these wakes queues a part of the reply,
\* of channels and nodes the graph holds at that moment.
C37_CompletedWithinThreeNPlusOne ==
    /\ [](\A id \in PeerIds :
            hist[id].query # NULL /\ hist[id].wakes >= 3 * Len(Val(hist[id].query)) + 1
            => peer[id].scid_queries = NULL)
    /\ [][ReplyWakeStep]_vars

\* The query <<3, 1>>: two wakes queue the two channels, then both funding
\* outputs are spent, and the third wake, finding none of the recorded
\* nodes in the graph, queues the terminator alone.
C37_Witness ==
    \E id \in PeerIds :
       /\ hist[id].query = Some(<<3, 1>>)
       /\ hist[id].wakes = 3
       /\ peer[id].scid_queries = NULL
       /\ Len(hist[id].reply) = 7
       /\ hist[id].reply[1] = MsgChannelAnnouncement(3)
       /\ hist[id].reply[4] = MsgChannelAnnouncement(1)
       /\ hist[id].reply[7] = MsgReplyShortChannelIdsEnd
       /\ ~chanmap[3].present /\ ~chanmap[1].present

\* The peer's window holds no timestamp.
WindowEmpty(id) == peer[id].gossip_timestamp_min > peer[id].gossip_timestamp_max
\* The step handles a gossip_timestamp_filter of our chain from the peer.
FilterStep(id) == sent'.step = Step("gossip_timestamp_filter", id, <<TRUE, OurChain>>)
\* The step leaves the peer's session in place.
SameSession(id) ==
    /\ id \in peers /\ id \in peers'
    /\ sent'.step.op # "connectd_new_peer"

\* A step seen from the paced-out timer of a peer.
TimerStep ==
    \A id \in PeerIds :
       /\ ~peer[id].gossip_timer /\ peer'[id].gossip_timer =>
             /\ sent'.step = Step("dump_gossip", id, <<>>)
             /\ sent'.to_peer = <<>>
             /\ ~create_next_scid_reply(peer[id]).sent
             /\ ~next_broadcast(broadcasts, peer[id].gossip_timestamp_min,
                                peer[id].gossip_timestamp_max,
                                peer[id].broadcast_index).found
       /\ peer[id].gossip_timer /\ SameSession(id) =>
             /\ n_broadcast(sent'.to_peer) = 0
             /\ \A i \in Entries : ~EmitsNow(id, i)
       /\ peer[id].gossip_timer /\ SameSession(id) /\ ~peer'[id].gossip_timer =>
             \/ sent'.step = Step("wake_gossip_out", id, <<>>)
             \/ FilterStep(id) /\ WindowEmpty(id)
       /\ sent'.step = Step("wake_gossip_out", id, <<>>) =>
             peer[id].gossip_timer /\ ~peer'[id].gossip_timer
       /\ FilterStep(id) /\ WindowEmpty(id) => ~peer'[id].gossip_timer
       /\ FilterStep(id) /\ ~WindowEmpty(id) =>
             /\ peer'[id].gossip_timer = peer[id].gossip_timer
             /\ peer'[id].broadcast_index = 0

\* C39: the paced-out timer of a peer is armed only when it is not armed,
\* by a wake that queued no SCID reply and for which next_broadcast found no
\* entry; while it is armed no broadcast-log message is queued to the peer;
\* in a session it is cleared only by its firing or by a
\* gossip_timestamp_filter received while the window was empty. A
\* gossip_timestamp_filter received while the window is not empty puts the
\* cursor back to 0 and leaves the timer as it is.
C39_OneTimerSilentWhileArmed == [][TimerStep]_vars

\* A filter arrives while the timer is armed and the window is not empty:
\* the cursor is back at 0, the timer still armed, and entries of the log
\* are in the window again.
C39_Witness ==
    \E id \in PeerIds :
       /\ sent.step = Step("gossip_timestamp_filter", id, <<TRUE, OurChain>>)
       /\ peer[id].gossip_timer
       /\ peer[id].broadcast_index = 0
       /\ hist[id].prev # {}
       /\ \E i \in Entries : InWindow(id, i)

====
